---- MODULE Spec2Model ----
(***************************************************************************)
(* Plan persistence and validation of the fitness backend:                 *)
(*   backend/ai_meal_service.py     generate_and_save_weekly_meal_plan,    *)
(*                                  get_latest_weekly_meal_plan            *)
(*   backend/crud.py                create_meal_plan, delete_meal_plan     *)
(*   backend/ai_workout_service.py  _schema_min_validate,                  *)
(*                                  generate_weekly_workout_plan           *)
(*                                                                         *)
(* Each request handler owns its own database session; a commit is the     *)
(* unit that other sessions observe, so every action ends at a commit, at  *)
(* a raised exception or at the handler's return.                          *)
(***************************************************************************)
EXTENDS Integers, Sequences, FiniteSets, TLC

VARIABLES
    mealplans,      \* rows of table mealplans (models.MealPlan)
    nextMealId,     \* next autoincrement id of mealplans
    now,            \* reading of the clock behind MealPlan.created_at
    req,            \* per handler: position inside generate_and_save_weekly_meal_plan
    resp,           \* what the call that ended last returned or raised
    workout_plans,  \* rows of table workout_plans (models.WorkoutPlan)
    nextWorkoutId,  \* next autoincrement id of workout_plans
    wlast,          \* input and result of the last generate_weekly_workout_plan call
    vcand,          \* candidate handed to _schema_min_validate
    vout,           \* what _schema_min_validate did with vcand
    dcall,          \* input and result of a generate_single_day call
    icall,          \* input and result of a generate_ingredients call
    scall,          \* input and result of a generate_shopping_list call
    pcall,          \* caller, request and answer of POST /meal-plan/generate
    pdf,            \* workout_plan_json_to_pdf_bytes: what is left to draw, cursor, page
    users,          \* rows of table users (models.User)
    nextUserId,     \* next autoincrement id of users
    clock,          \* datetime.utcnow(), in half hours
    aresp,          \* the request of the last signup, login, status or reset call and its answer
    issued,         \* per password reset token handed out: user, expiry, times it changed a password
    favorites,      \* rows of table favorites (models.Favorite)
    nextFavId,      \* next autoincrement id of favorites
    fresp,          \* the last favourites request and its answer
    lastFav,        \* per user and supplement: the last add or remove that succeeded
    supplements,    \* rows of table supplements (models.Supplement)
    nextSupId,      \* next autoincrement id of supplements
    files,          \* names of the files in the upload directory
    sresp           \* the last supplement request and its answer

vars == <<mealplans, nextMealId, now, req, resp,
          workout_plans, nextWorkoutId, wlast, vcand, vout, dcall, icall, scall, pcall,
          pdf, users, nextUserId, clock, aresp, issued,
          favorites, nextFavId, fresp, lastFav, supplements, nextSupId, files, sresp>>

mealVars == <<mealplans, nextMealId, now, req, resp>>
workoutVars == <<workout_plans, nextWorkoutId, wlast>>
validateVars == <<vcand, vout>>
mockVars == <<dcall, icall, scall, pcall>>
planVars == <<mealVars, workoutVars, validateVars, mockVars>>
authVars == <<users, nextUserId, clock, aresp, issued>>
favVars == <<favorites, nextFavId, fresp, lastFav>>
supVars == <<supplements, nextSupId, files, sresp>>
appVars == <<pdf, authVars, favVars, supVars>>

(***************************************************************************)
(* Bounds of the model.                                                    *)
(***************************************************************************)
MaxMealPlans == 2       \* rows ever inserted into mealplans
MaxWorkoutPlans == 2    \* rows ever inserted into workout_plans
MaxCandDays == 3        \* longest day list handed to _schema_min_validate alone
MaxCalories == 11       \* largest macro target given to generate_single_day
MaxMealsPerDay == 10    \* largest preferences.mealsPerDay
MaxTokens == 2          \* longest foodsDislike list and longest allergies list
MaxShopDays == 2        \* longest list of days given to generate_shopping_list alone
MaxDuration == 8        \* largest duration of a meal plan request
MaxDrawnDays == 2       \* largest duration of a request whose draws can differ
MaxPdfDays == 4         \* longest day list of a plan given to workout_plan_json_to_pdf_bytes
MaxUsers == 2           \* rows ever inserted into users
MaxClock == 4           \* last reading of the clock
MaxResetTokens == 2     \* password reset tokens ever handed out

Users == {1, 2}                 \* ids with a row in table users
UserIds == Users \cup {3}       \* 3: an id without a row
Workers == {"w1", "w2"}         \* request handlers running concurrently
SeqWorker == "w1"               \* the only handler of the sequential specifications

(***************************************************************************)
(* JSON values.  Every value has the same shape: kind, the members of an   *)
(* object (f), the length of a list (n).  kind "absent" stands for a key   *)
(* that the enclosing dict does not have.                                  *)
(***************************************************************************)
NoMembers == [k \in {} |-> ""]
JAbsent == [kind |-> "absent", f |-> NoMembers, n |-> 0]
JNull == [kind |-> "null", f |-> NoMembers, n |-> 0]
JStr == [kind |-> "str", f |-> NoMembers, n |-> 0]
JObj(members) == [kind |-> "obj", f |-> members, n |-> 0]
JList(len) == [kind |-> "list", f |-> NoMembers, n |-> len]

Range(s) == {s[i] : i \in DOMAIN s}

\* Python truthiness of a JSON value (None, {}, [] are falsy).
Truthy(v) ==
    CASE v.kind \in {"absent", "null"} -> FALSE
      [] v.kind = "obj" -> DOMAIN v.f # {}
      [] v.kind = "list" -> v.n > 0
      [] OTHER -> TRUE

\* The key assigned whether or not the dict has it.
SetDefault_Overwrite(members, k, v) ==
    [x \in DOMAIN members \cup {k} |-> IF x = k THEN v ELSE members[x]]

\* dict.setdefault(k, v) on the members of a dict.
SetDefault(members, k, v) ==
    IF k \in DOMAIN members
    THEN members
    ELSE [x \in DOMAIN members \cup {k} |-> IF x = k THEN v ELSE members[x]]

\* A run of setdefault calls, one per key of keys, in order.
RECURSIVE SetDefaults(_, _, _)
SetDefaults(members, keys, v) ==
    IF keys = <<>>
    THEN members
    ELSE SetDefaults(SetDefault(members, Head(keys), v), Tail(keys), v)

ServerValue == "server"     \* a value the service fills in
AiValue == "ai"             \* a value the generator supplied

\* json.dumps of a dict with the given key order: one member per present key.
JsonDumps(d, keys) ==
    LET present == SelectSeq(keys, LAMBDA k : d[k].kind # "absent")
    IN  [i \in 1..Len(present) |-> <<present[i], d[present[i]]>>]

\* json.loads of a text produced for the given keys.
JsonLoads(text, keys) ==
    [k \in Range(keys) |->
        IF \E i \in DOMAIN text : text[i][1] = k
        THEN (text[CHOOSE i \in DOMAIN text : text[i][1] = k])[2]
        ELSE JAbsent]

NullText == [isNull |-> TRUE, text |-> <<>>]
Text(t) == [isNull |-> FALSE, text |-> t]

(***************************************************************************)
(* Meal plans: ai_meal_service.py, crud.py                                 *)
(***************************************************************************)
MealKeys == <<"meta", "daily_targets", "week">>
MealMetaKeys == <<"language", "created_at", "model", "prompt_version", "disclaimer">>

MealDays == 7       \* plan_duration_days, "week MUST have EXACTLY 7 days"

MealDict(meta, daily, week) == [meta |-> meta, daily_targets |-> daily, week |-> week]
EmptyMealDict == MealDict(JAbsent, JAbsent, JAbsent)

AllMealMeta == [k \in Range(MealMetaKeys) |-> AiValue]
GoodDaily == JObj([k \in {"calories", "protein", "carbs", "fat", "water_liters"} |-> "num"])

\* What the generator call can hand back: text that is no JSON, JSON that is no
\* object, or an object.
MealCandidates ==
    { [json |-> "bad", top |-> "obj", data |-> EmptyMealDict],
      [json |-> "ok", top |-> "notobj", data |-> EmptyMealDict],
      [json |-> "ok", top |-> "obj",
       data |-> MealDict(JObj(AllMealMeta), GoodDaily, JList(MealDays))],
      [json |-> "ok", top |-> "obj",
       data |-> MealDict(JAbsent, JAbsent, JList(MaxCandDays))],
      [json |-> "ok", top |-> "obj",
       data |-> MealDict(JNull, GoodDaily, JList(MealDays))],
      [json |-> "ok", top |-> "obj",
       data |-> MealDict(JObj(AllMealMeta), JStr, JList(MealDays))] }

\* Lines 217-226: json.loads, then the meta defaults.  The result is the dict
\* the function goes on with, or the exception that ends the call.
MealParse(c) ==
    IF c.json = "bad" THEN [err |-> "E_JSON", data |-> EmptyMealDict]
    ELSE IF c.top # "obj" THEN [err |-> "EXC_ATTRIBUTE", data |-> EmptyMealDict]
    ELSE LET withMeta == IF c.data.meta.kind = "absent"
                         THEN [c.data EXCEPT !.meta = JObj(NoMembers)]
                         ELSE c.data
         IN  IF withMeta.meta.kind # "obj"
             THEN [err |-> "EXC_ATTRIBUTE", data |-> EmptyMealDict]
             ELSE [err |-> "OK",
                   data |-> [withMeta EXCEPT !.meta =
                       JObj(SetDefaults(withMeta.meta.f, MealMetaKeys, ServerValue))]]

\* Lines 232, 248-252: daily = data.get("daily_targets", {}) or {}, then
\* float(daily.get(name, 0) or 0) for each column.
DailyError(data) ==
    LET dt == data.daily_targets
    IN  IF ~Truthy(dt) THEN "OK"
        ELSE IF dt.kind # "obj" THEN "EXC_ATTRIBUTE"
        ELSE IF \E k \in DOMAIN dt.f : dt.f[k] # "num" THEN "E_VALUE"
        ELSE "OK"

RowsOf(u) == {r \in mealplans : r.user_id = u}

\* The version given to a row inserted by generate_and_save_weekly_meal_plan.
SavedVersion(rows) == 1

\* The UPDATE of line 229 left out: older rows keep their flag.
DeactivateAll_Skipped(rows, u) == rows

\* The UPDATE of line 229 also clearing the payload column.
DeactivateAll_WipesPayload(rows, u) ==
    {IF r.user_id = u
     THEN [r EXCEPT !.is_active = FALSE, !.plan_json = [isNull |-> TRUE, text |-> <<>>]]
     ELSE r : r \in rows}

\* Line 229: UPDATE mealplans SET is_active = 0 WHERE user_id = u.
DeactivateAll(rows, u) ==
    {IF r.user_id = u THEN [r EXCEPT !.is_active = FALSE] ELSE r : r \in rows}

MealRow(id, u, json, version, t) ==
    [id |-> id, user_id |-> u, plan_json |-> json, version |-> version,
     is_active |-> TRUE, created_at |-> t]

\* A handler between calls.  wasActive records, for a save under way, the ids
\* of the user's rows that were active when the save began.
Idle == [pc |-> "idle", user |-> 0, data |-> EmptyMealDict, wasActive |-> {}]
Resp(op, u, outcome, id, body) ==
    [op |-> op, user |-> u, outcome |-> outcome, recId |-> id, body |-> body]
NoResp == Resp("none", 0, "none", 0, EmptyMealDict)
Raised(op, err) == Resp(op, 0, err, 0, EmptyMealDict)

\* The clock never runs backwards; two inserts may read the same value.
Stamps == {now, now + 1}

\* generate_and_save_weekly_meal_plan ending before the generator has answered:
\* the user lookup of lines 47-49, or the call of line 207 raising.
SaveNoAnswer(p, u) ==
    /\ req[p].pc = "idle"
    /\ resp' = Raised("save", IF u \notin Users THEN "E_USER_NOT_FOUND" ELSE "EXC_GENERATOR")
    /\ UNCHANGED <<mealplans, nextMealId, now, req, workoutVars, validateVars, mockVars, appVars>>

\* generate_and_save_weekly_meal_plan with the generator's answer c, up to the
\* first commit (lines 217-230).
SaveDeactivate(p, u, c) ==
    /\ req[p].pc = "idle"
    /\ u \in Users
    /\ LET parsed == MealParse(c)
       IN  IF parsed.err # "OK"
           THEN /\ resp' = Raised("save", parsed.err)
                /\ UNCHANGED <<mealplans, req>>
           ELSE /\ mealplans' = DeactivateAll(mealplans, u)
                /\ req' = [req EXCEPT ![p] =
                               [pc |-> "insert", user |-> u, data |-> parsed.data,
                                wasActive |-> {r.id : r \in {x \in RowsOf(u) : x.is_active}}]]
                /\ resp' = NoResp
    /\ UNCHANGED <<nextMealId, now, workoutVars, validateVars, mockVars, appVars>>

\* generate_and_save_weekly_meal_plan from line 232 to its return.
\* dbOk: whether the INSERT and its commit went through.
SaveInsert(p, dbOk, t) ==
    /\ req[p].pc = "insert"
    /\ nextMealId <= MaxMealPlans
    /\ LET u == req[p].user
           data == req[p].data
           err == IF DailyError(data) # "OK" THEN DailyError(data)
                  ELSE IF ~dbOk THEN "EXC_DB"
                  ELSE "OK"
       IN  IF err # "OK"
           THEN /\ resp' = Raised("save", err)
                /\ UNCHANGED <<mealplans, nextMealId, now>>
           ELSE /\ mealplans' = mealplans \cup
                        {MealRow(nextMealId, u, Text(JsonDumps(data, MealKeys)),
                                 SavedVersion(RowsOf(u)), t)}
                /\ nextMealId' = nextMealId + 1
                /\ now' = t
                /\ resp' = Resp("save", u, "ok", nextMealId, data)
    /\ req' = [req EXCEPT ![p] = Idle]
    /\ UNCHANGED <<workoutVars, validateVars, mockVars, appVars>>

\* crud.create_meal_plan: a row with the column defaults (version 1, is_active
\* true, plan_json NULL).
CreateMealPlan(p, u, t) ==
    /\ req[p].pc = "idle"
    /\ u \in Users
    /\ nextMealId <= MaxMealPlans
    /\ mealplans' = mealplans \cup {MealRow(nextMealId, u, NullText, 1, t)}
    /\ nextMealId' = nextMealId + 1
    /\ now' = t
    /\ resp' = Resp("create", u, "ok", nextMealId, EmptyMealDict)
    /\ UNCHANGED <<req, workoutVars, validateVars, mockVars, appVars>>

\* crud.delete_meal_plan.
DeleteMealPlan(p, id) ==
    /\ req[p].pc = "idle"
    /\ IF \E r \in mealplans : r.id = id
       THEN /\ mealplans' = {r \in mealplans : r.id # id}
            /\ resp' = Resp("delete", 0, "ok", id, EmptyMealDict)
       ELSE /\ resp' = Resp("delete", 0, "not_found", id, EmptyMealDict)
            /\ UNCHANGED mealplans
    /\ UNCHANGED <<nextMealId, now, req, workoutVars, validateVars, mockVars, appVars>>

\* The query ordered by created_at ascending instead of descending.
LatestRows_Oldest(u) ==
    LET withJson == {r \in mealplans : r.user_id = u /\ ~r.plan_json.isNull}
    IN  {r \in withJson : \A o \in withJson : r.created_at <= o.created_at}

\* The rows get_latest_weekly_meal_plan's query can return first: those of the
\* user with a payload, latest created_at first; rows with equal created_at
\* come in an order the query does not fix.
LatestRows(u) ==
    LET withJson == {r \in RowsOf(u) : ~r.plan_json.isNull}
    IN  {r \in withJson : \A o \in withJson : o.created_at <= r.created_at}

\* get_latest_weekly_meal_plan.
GetLatest(p, u) ==
    /\ req[p].pc = "idle"
    /\ IF LatestRows(u) = {}
       THEN resp' = Resp("latest", u, "none", 0, EmptyMealDict)
       ELSE \E r \in LatestRows(u) :
                resp' = IF r.plan_json.text = <<>>
                        THEN Resp("latest", u, "none", 0, EmptyMealDict)
                        ELSE Resp("latest", u, "ok", r.id,
                                  JsonLoads(r.plan_json.text, MealKeys))
    /\ UNCHANGED <<mealplans, nextMealId, now, req, workoutVars, validateVars, mockVars, appVars>>

MealStep(p) ==
    \/ \E u \in UserIds : SaveNoAnswer(p, u)
    \/ \E u \in Users, c \in MealCandidates : SaveDeactivate(p, u, c)
    \/ \E dbOk \in BOOLEAN, t \in Stamps : SaveInsert(p, dbOk, t)
    \/ \E u \in Users, t \in Stamps : CreateMealPlan(p, u, t)
    \/ \E id \in 1..MaxMealPlans : DeleteMealPlan(p, id)
    \/ \E u \in UserIds : GetLatest(p, u)

(***************************************************************************)
(* Workout plans: ai_workout_service.py                                    *)
(***************************************************************************)
WorkoutKeys == <<"meta", "weeks">>
WorkoutMetaKeys == <<"created_at", "prompt_version", "model", "split", "days_per_week",
                     "experience", "focus", "equipment", "language", "disclaimer">>

MinSubstitutions == 2   \* len(subs) < 2
DaysLo == 1             \* _clamp(..., 1, 7)
DaysHi == 7
DefaultDays == 3        \* _as_int(getattr(prefs, "days_per_week", 3), 3)
WeekNumber == 1         \* week.get("week_number") != 1
WeeksLen == 1           \* len(weeks) != 1

\* A list-valued field: absent, present but no list, or a list of items.
NoList(kind) == [kind |-> kind, items |-> <<>>]
ListOf(items) == [kind |-> "list", items |-> items]

Exercise(isObj, subs) == [isObj |-> isObj, substitutions |-> subs]
Day(isObj, exs) == [isObj |-> isObj, exercises |-> exs]
Week(isObj, num, days) == [isObj |-> isObj, week_number |-> num, days |-> days]
WorkoutDict(meta, weeks) == [meta |-> meta, weeks |-> weeks]
Candidate(json, top, meta, weeks) ==
    [json |-> json, top |-> top, data |-> WorkoutDict(meta, weeks)]

EmptyWorkoutDict == WorkoutDict(JAbsent, NoList("absent"))
NoCandidate == Candidate("none", "none", JAbsent, NoList("absent"))

\* The first entry of a list of check results that is an error.
FirstError(errs) ==
    IF \E i \in DOMAIN errs : errs[i] # "OK"
    THEN errs[CHOOSE i \in DOMAIN errs :
                 errs[i] # "OK" /\ \A j \in DOMAIN errs : j < i => errs[j] = "OK"]
    ELSE "OK"

\* The substitution check accepting a single entry.
ExerciseError_OneSubstitution(ex) ==
    IF ~ex.isObj THEN "E_EXERCISE_NOT_OBJECT"
    ELSE IF ex.substitutions.kind # "list" \/ ex.substitutions.n < 1
    THEN "E_SUBSTITUTIONS"
    ELSE "OK"

\* Lines 84-89.
ExerciseError(ex) ==
    IF ~ex.isObj THEN "E_EXERCISE_NOT_OBJECT"
    ELSE IF ex.substitutions.kind # "list" \/ ex.substitutions.n < MinSubstitutions
    THEN "E_SUBSTITUTIONS"
    ELSE "OK"

\* Lines 78-89.
DayError(d) ==
    IF ~d.isObj THEN "E_DAY_NOT_OBJECT"
    ELSE IF d.exercises.kind # "list" \/ Len(d.exercises.items) = 0
    THEN "E_EXERCISES_EMPTY"
    ELSE FirstError([i \in DOMAIN d.exercises.items |-> ExerciseError(d.exercises.items[i])])

\* _schema_min_validate: the ValueError it raises, or "OK" when it returns.
schema_min_validate(c) ==
    IF c.top # "obj" THEN "E_NOT_OBJECT"
    ELSE IF c.data.meta.kind = "absent" \/ c.data.weeks.kind = "absent"
    THEN "E_MISSING_META_WEEKS"
    ELSE IF c.data.weeks.kind # "list" \/ Len(c.data.weeks.items) # WeeksLen
    THEN "E_WEEKS_COUNT"
    ELSE LET week == c.data.weeks.items[1]
         IN  IF ~week.isObj \/ week.week_number # WeekNumber THEN "E_WEEK_NUMBER"
             ELSE IF week.days.kind # "list" \/ Len(week.days.items) = 0
             THEN "E_DAYS_EMPTY"
             ELSE FirstError([i \in DOMAIN week.days.items |-> DayError(week.days.items[i])])

\* prefs.days_per_week as the caller gave it: an int, or None.
NoDays == [isInt |-> FALSE, n |-> 0]
IntDays(n) == [isInt |-> TRUE, n |-> n]

as_int(x, default) == IF x.isInt THEN x.n ELSE default

Max(a, b) == IF a >= b THEN a ELSE b
Min(a, b) == IF a <= b THEN a ELSE b

clamp(n, lo, hi) == Max(lo, Min(hi, n))

\* Line 121.
DaysPerWeek(days) == clamp(as_int(days, DefaultDays), DaysLo, DaysHi)

\* The day check rejecting only plans that are too short.
DayCountMismatch_TooFewOnly(days, days_per_week) == Len(days) < days_per_week

\* Line 314.
DayCountMismatch(days, days_per_week) == Len(days) # days_per_week

WorkoutRow(id, u, meta, json) ==
    [id |-> id, user_id |-> u, days_per_week |-> meta["days_per_week"], plan_json |-> json]

WorkoutCall(u, days, c, outcome, returned, id) ==
    [user |-> u, days |-> days, cand |-> c, outcome |-> outcome,
     returned |-> returned, recId |-> id]
NoWorkoutCall == WorkoutCall(0, NoDays, NoCandidate, "none", EmptyWorkoutDict, 0)
WorkoutRaised(u, days, c, err) == WorkoutCall(u, days, c, err, EmptyWorkoutDict, 0)

\* generate_weekly_workout_plan ending before the generator has answered:
\* the user lookup of lines 114-116, or the call of lines 286-295 raising.
GenerateWorkoutNoAnswer(u, days) ==
    /\ wlast' = WorkoutRaised(u, days, NoCandidate,
                              IF u \notin Users THEN "E_USER_NOT_FOUND" ELSE "EXC_GENERATOR")
    /\ UNCHANGED <<workout_plans, nextWorkoutId, mealVars, validateVars, mockVars, appVars>>

\* generate_weekly_workout_plan with the generator's answer c (lines 297-354).
\* dbOk: whether the INSERT and its commit went through.
GenerateWorkout(u, days, c, dbOk) ==
    /\ u \in Users
    /\ nextWorkoutId <= MaxWorkoutPlans
    /\ LET days_per_week == DaysPerWeek(days)
           valid == IF c.json # "ok" THEN "E_JSON" ELSE schema_min_validate(c)
           meta == IF Truthy(c.data.meta) THEN c.data.meta ELSE JObj(NoMembers)
           dayList == c.data.weeks.items[1].days.items
           err == IF valid # "OK" THEN valid
                  ELSE IF DayCountMismatch(dayList, days_per_week) THEN "E_DAY_COUNT"
                  ELSE IF meta.kind # "obj" THEN "EXC_ATTRIBUTE"
                  ELSE "OK"
           filled == SetDefaults(meta.f, WorkoutMetaKeys, ServerValue)
           data == [c.data EXCEPT !.meta = JObj(filled)]
       IN  /\ err # "OK" => dbOk    \* dbOk matters only to a call that gets to the INSERT
           /\ IF err # "OK"
              THEN /\ wlast' = WorkoutRaised(u, days, c, err)
                   /\ UNCHANGED <<workout_plans, nextWorkoutId>>
              ELSE IF dbOk
              THEN /\ workout_plans' = workout_plans \cup
                           {WorkoutRow(nextWorkoutId, u, filled, Text(JsonDumps(data, WorkoutKeys)))}
                   /\ nextWorkoutId' = nextWorkoutId + 1
                   /\ wlast' = WorkoutCall(u, days, c, "ok", data, nextWorkoutId)
              ELSE /\ wlast' = WorkoutCall(u, days, c, "ok", data, 0)
                   /\ UNCHANGED <<workout_plans, nextWorkoutId>>
    /\ UNCHANGED <<mealVars, validateVars, mockVars, appVars>>

\* main.generate_ai_workout_plan: the route looks up
\* ai_workout_service.generate_monthly_workout_plan, a name the service does not
\* define; the AttributeError is answered with status 500.
generate_ai_workout_plan(u, days) ==
    /\ wlast' = WorkoutRaised(u, days, NoCandidate, "HTTP_500")
    /\ UNCHANGED <<workout_plans, nextWorkoutId, mealVars, validateVars, mockVars, appVars>>

\* ---- what the generator can answer ----
GoodExercise == Exercise(TRUE, JList(MinSubstitutions))
GoodDay == Day(TRUE, ListOf(<<GoodExercise>>))
BadDays ==
    { Day(FALSE, ListOf(<<GoodExercise>>)),
      Day(TRUE, NoList("absent")),
      Day(TRUE, ListOf(<<>>)),
      Day(TRUE, ListOf(<<Exercise(FALSE, JList(MinSubstitutions))>>)),
      Day(TRUE, ListOf(<<Exercise(TRUE, JAbsent)>>)),
      Day(TRUE, ListOf(<<GoodExercise, Exercise(TRUE, JList(MinSubstitutions - 1))>>)) }

\* n good days, the one at position pos replaced by d.
DaysWith(n, pos, d) == [i \in 1..n |-> IF i = pos THEN d ELSE GoodDay]
GoodDays(n) == [i \in 1..n |-> GoodDay]
OneWeek(days) == ListOf(<<Week(TRUE, WeekNumber, ListOf(days))>>)

AllWorkoutMeta == JObj([k \in Range(WorkoutMetaKeys) |-> AiValue])
SomeWorkoutMeta == JObj([k \in {"split", "language", "model"} |-> AiValue])

\* Answers that break the shape above the day list.
BrokenCandidates ==
    { Candidate("bad", "obj", JAbsent, NoList("absent")),
      Candidate("ok", "notobj", JAbsent, NoList("absent")),
      Candidate("ok", "obj", JAbsent, OneWeek(GoodDays(DefaultDays))),
      Candidate("ok", "obj", AllWorkoutMeta, NoList("absent")),
      Candidate("ok", "obj", AllWorkoutMeta, NoList("null")),
      Candidate("ok", "obj", AllWorkoutMeta, ListOf(<<>>)),
      Candidate("ok", "obj", AllWorkoutMeta,
                ListOf(<<Week(TRUE, WeekNumber, ListOf(GoodDays(DefaultDays))),
                         Week(TRUE, WeekNumber + 1, ListOf(GoodDays(DefaultDays)))>>)),
      Candidate("ok", "obj", AllWorkoutMeta,
                ListOf(<<Week(FALSE, WeekNumber, ListOf(GoodDays(DefaultDays)))>>)),
      Candidate("ok", "obj", AllWorkoutMeta,
                ListOf(<<Week(TRUE, WeekNumber + 1, ListOf(GoodDays(DefaultDays)))>>)),
      Candidate("ok", "obj", AllWorkoutMeta,
                ListOf(<<Week(TRUE, WeekNumber, NoList("absent"))>>)),
      Candidate("ok", "obj", AllWorkoutMeta, OneWeek(<<>>)) }

\* Day counts of the answers: the limits of line 121, the default, one more.
DayCounts == {DaysLo, DefaultDays, DefaultDays + 1, DaysHi}

\* Answers with every day in shape, and the forms meta can take.
ShapedCandidates ==
    { Candidate("ok", "obj", AllWorkoutMeta, OneWeek(GoodDays(n))) : n \in DayCounts }
    \cup { Candidate("ok", "obj", m, OneWeek(GoodDays(DefaultDays))) :
               m \in {JNull, JStr, SomeWorkoutMeta} }

\* Answers whose last day is out of shape.
BadDayCandidates ==
    { Candidate("ok", "obj", AllWorkoutMeta, OneWeek(DaysWith(DefaultDays, DefaultDays, d))) :
          d \in BadDays }

WorkoutCandidates == BrokenCandidates \cup ShapedCandidates \cup BadDayCandidates

\* What a caller can put into prefs.days_per_week.
DaysInputs == {NoDays, IntDays(DaysLo - 1), IntDays(DefaultDays + 1), IntDays(DaysHi + 2)}

\* Candidates for _schema_min_validate alone: a bad day at any position of
\* day lists of every length up to MaxCandDays.
ValidateCandidates ==
    {c \in WorkoutCandidates : c.json = "ok"}
    \cup { Candidate("ok", "obj", AllWorkoutMeta, OneWeek(DaysWith(n, pos, d))) :
               n \in 1..MaxCandDays, pos \in 1..MaxCandDays, d \in BadDays }
    \cup { Candidate("ok", "obj", JNull, OneWeek(GoodDays(n))) : n \in 1..MaxCandDays }

\* _schema_min_validate called on a candidate.
Validate ==
    /\ vout = "none"
    /\ vout' = schema_min_validate(vcand)
    /\ UNCHANGED <<vcand, mealVars, workoutVars, mockVars, appVars>>

\* The next candidate arrives.
NextCandidate(c) ==
    /\ vout # "none"
    /\ vcand' = c
    /\ vout' = "none"
    /\ UNCHANGED <<mealVars, workoutVars, mockVars, appVars>>

(***************************************************************************)
(* The mock plan generator: ai-fitness-app/backend/meal_plan_generator.py  *)
(*                                                                         *)
(* A str is a sequence of its characters, so that lower() and the "in" of  *)
(* two strs are computed.  Amounts are only compared and stay strings.     *)
(***************************************************************************)
UpperChars == <<"A", "B", "C", "D", "E", "F", "G", "H", "I", "J", "K", "L", "M",
                "N", "O", "P", "Q", "R", "S", "T", "U", "V", "W", "X", "Y", "Z">>
LowerChars == <<"a", "b", "c", "d", "e", "f", "g", "h", "i", "j", "k", "l", "m",
                "n", "o", "p", "q", "r", "s", "t", "u", "v", "w", "x", "y", "z">>

\* lower() leaving the str as it is.
lower_Identity(str) == str

\* str.lower() of one character, and of a str.
LowerChar(ch) ==
    IF \E i \in DOMAIN UpperChars : UpperChars[i] = ch
    THEN LowerChars[CHOOSE i \in DOMAIN UpperChars : UpperChars[i] = ch]
    ELSE ch
lower(str) == [i \in DOMAIN str |-> LowerChar(str[i])]

\* sub in str.
StrIn(sub, str) ==
    LET needle == sub
        hay == str
    IN  \E i \in 0..(Len(hay) - Len(needle)) : SubSeq(hay, i + 1, i + Len(needle)) = needle

Ingredient(name, amount) == [name |-> name, amount |-> amount]

MealTypeNames == <<"Breakfast", "Lunch", "Dinner", "Snack", "Snack 2">>

\* base_ingredients of generate_ingredients (lines 132-157).
base_ingredients(mt) ==
    CASE mt = "Breakfast" ->
        <<Ingredient(<<"E", "g", "g", "s">>, "2 pieces"),
           Ingredient(<<"W", "h", "o", "l", "e", " ", "g", "r", "a", "i", "n", " ", "b", "r", "e", "a", "d">>, "2 slices"),
           Ingredient(<<"G", "r", "e", "e", "k", " ", "y", "o", "g", "u", "r", "t">>, "150g")>>
      [] mt = "Lunch" ->
        <<Ingredient(<<"C", "h", "i", "c", "k", "e", "n", " ", "b", "r", "e", "a", "s", "t">>, "150g"),
           Ingredient(<<"B", "r", "o", "w", "n", " ", "r", "i", "c", "e">>, "100g"),
           Ingredient(<<"M", "i", "x", "e", "d", " ", "v", "e", "g", "e", "t", "a", "b", "l", "e", "s">>, "200g")>>
      [] mt = "Dinner" ->
        <<Ingredient(<<"S", "a", "l", "m", "o", "n">>, "150g"),
           Ingredient(<<"S", "w", "e", "e", "t", " ", "p", "o", "t", "a", "t", "o">>, "200g"),
           Ingredient(<<"B", "r", "o", "c", "c", "o", "l", "i">>, "150g")>>
      [] mt = "Snack" ->
        <<Ingredient(<<"A", "p", "p", "l", "e">>, "1 medium"),
           Ingredient(<<"A", "l", "m", "o", "n", "d", "s">>, "30g"),
           Ingredient(<<"P", "r", "o", "t", "e", "i", "n", " ", "s", "h", "a", "k", "e">>, "1 serving")>>
      [] mt = "Snack 2" ->
        <<Ingredient(<<"B", "a", "n", "a", "n", "a">>, "1 medium"),
           Ingredient(<<"P", "e", "a", "n", "u", "t", " ", "b", "u", "t", "t", "e", "r">>, "1 tbsp")>>

\* The len first entries of a list: list[:len].
Take(list, len) == SubSeq(list, 1, Min(len, Len(list)))

MaxIngredients == 5

\* Line 165: name.lower() in [f.lower() for f in preferences.foodsDislike].
Disliked(name, foodsDislike) ==
    LET name_lower == lower(name)
    IN  \E i \in DOMAIN foodsDislike : lower(foodsDislike[i]) = name_lower

\* The allergy test comparing whole names instead of looking for the token.
Allergic_WholeName(name, allergies) ==
    \E i \in DOMAIN allergies : lower(allergies[i]) = lower(name)

\* Line 167: any(allergy.lower() in name.lower() for allergy in preferences.allergies).
Allergic(name, allergies) ==
    LET name_lower == lower(name)
    IN  \E i \in DOMAIN allergies : StrIn(lower(allergies[i]), name_lower)

\* The kept items of the meal type's list handed back last one first.
generate_ingredients_Reversed(mt, foodsDislike, allergies) ==
    LET ingredients_list == IF mt \in Range(MealTypeNames)
                            THEN base_ingredients(mt)
                            ELSE base_ingredients("Lunch")
        kept(ing) == ~Disliked(ing.name, foodsDislike) /\ ~Allergic(ing.name, allergies)
        filtered == SelectSeq(ingredients_list, kept)
    IN  Take([i \in DOMAIN filtered |-> filtered[Len(filtered) + 1 - i]], MaxIngredients)

\* generate_ingredients (lines 129-171); an unknown meal type gets the Lunch list.
generate_ingredients(mt, foodsDislike, allergies) ==
    LET ingredients_list == IF mt \in Range(MealTypeNames)
                            THEN base_ingredients(mt)
                            ELSE base_ingredients("Lunch")
        kept(ing) == ~Disliked(ing.name, foodsDislike) /\ ~Allergic(ing.name, allergies)
    IN  Take(SelectSeq(ingredients_list, kept), MaxIngredients)

\* ---- generate_single_day ----
\* The bound of random.uniform(-variance, variance) of lines 77-81, as a fraction.
VarianceNum == 1
VarianceDen == 10

SnackFrom == 4      \* line 57
Snack2From == 5     \* line 59

\* meal_types of lines 56-60.
MealTypes(mealsPerDay) ==
    <<"Breakfast", "Lunch", "Dinner">>
        \o (IF mealsPerDay >= SnackFrom THEN <<"Snack">> ELSE <<>>)
        \o (IF mealsPerDay >= Snack2From THEN <<"Snack 2">> ELSE <<>>)

\* Lines 71-81 for one macro: int(target / mealsPerDay * (1 + v)) with v anywhere
\* in [-variance, variance] is any integer from the truncated lower end to the
\* truncated upper end.  Targets are not negative, so int() is the floor; the
\* float product is taken as exact.
DrawValues(target, mealsPerDay) ==
    ((target * (VarianceDen - VarianceNum)) \div (mealsPerDay * VarianceDen))
        .. ((target * (VarianceDen + VarianceNum)) \div (mealsPerDay * VarianceDen))

Targets(calories, protein, carbs, fat) ==
    [calories |-> calories, protein |-> protein, carbs |-> carbs, fat |-> fat]

\* What the four random draws of one meal can give.
MealDraws(targets, mealsPerDay) ==
    [calories : DrawValues(targets.calories, mealsPerDay),
     protein : DrawValues(targets.protein, mealsPerDay),
     carbs : DrawValues(targets.carbs, mealsPerDay),
     fat : DrawValues(targets.fat, mealsPerDay)]

Preferences(mealsPerDay, foodsDislike, allergies) ==
    [mealsPerDay |-> mealsPerDay, foodsDislike |-> foodsDislike, allergies |-> allergies]

\* schemas.Meal as built in lines 83-93; name is "<mealType> Option <option>".
Meal(mealType, option, macros, ingredients) ==
    [mealType |-> mealType, option |-> option,
     calories |-> macros.calories, protein |-> macros.protein,
     carbs |-> macros.carbs, fat |-> macros.fat,
     ingredients |-> ingredients]

\* sum(m.<macro> for m in meals).
RECURSIVE SumMacro(_, _)
SumMacro(meals, macro) ==
    IF meals = <<>> THEN 0 ELSE Head(meals)[macro] + SumMacro(Tail(meals), macro)

Totals(meals) ==
    Targets(SumMacro(meals, "calories"), SumMacro(meals, "protein"),
            SumMacro(meals, "carbs"), SumMacro(meals, "fat"))

\* The normalization run whatever the total is.
ShouldNormalize_Always(total_calories) == TRUE

\* Line 102.
ShouldNormalize(total_calories) == total_calories # 0

\* Lines 103-108 for one meal: int(meal.x * scale_factor) with
\* scale_factor = targets.calories / total_calories.
ScaleMeal(meal, target_calories, total_calories) ==
    [meal EXCEPT !.calories = (meal.calories * target_calories) \div total_calories,
                 !.protein = (meal.protein * target_calories) \div total_calories,
                 !.carbs = (meal.carbs * target_calories) \div total_calories,
                 !.fat = (meal.fat * target_calories) \div total_calories]

\* schemas.DayPlan as built in lines 115-126.
DayPlan(day_number, targets, actual, meals) ==
    [day |-> day_number, target |-> targets, actual |-> actual, meals |-> meals]
NoDayPlan == DayPlan(0, Targets(0, 0, 0, 0), Targets(0, 0, 0, 0), <<>>)

DayResult(outcome, normalized, plan) ==
    [outcome |-> outcome, normalized |-> normalized, plan |-> plan]

\* generate_single_day (lines 44-126) with the draws of its meals given.  Both
\* divisions raise ZeroDivisionError on a zero divisor: line 71 in the first
\* pass of the loop, line 103 when it is reached with a zero total.
generate_single_day(day_number, prefs, targets, draws) ==
    LET meal_types == MealTypes(prefs.mealsPerDay)
        meals == [i \in DOMAIN meal_types |->
                     Meal(meal_types[i], day_number, draws[i],
                          generate_ingredients(meal_types[i], prefs.foodsDislike,
                                               prefs.allergies))]
        total_calories == SumMacro(meals, "calories")
        scaled == [i \in DOMAIN meals |->
                      ScaleMeal(meals[i], targets.calories, total_calories)]
    IN  IF prefs.mealsPerDay = 0
        THEN DayResult("EXC_ZERO_DIVISION", FALSE, NoDayPlan)
        ELSE IF ~ShouldNormalize(total_calories)
        THEN DayResult("ok", FALSE, DayPlan(day_number, targets, Totals(meals), meals))
        ELSE IF total_calories = 0
        THEN DayResult("EXC_ZERO_DIVISION", FALSE, NoDayPlan)
        ELSE DayResult("ok", TRUE, DayPlan(day_number, targets, Totals(scaled), scaled))

\* The draws of a whole day: one per meal type.
NoDraw == Targets(0, 0, 0, 0)
DayDraws(prefs, targets) ==
    IF prefs.mealsPerDay = 0
    THEN {[i \in DOMAIN MealTypes(0) |-> NoDraw]}
    ELSE [DOMAIN MealTypes(prefs.mealsPerDay) -> MealDraws(targets, prefs.mealsPerDay)]

\* A call of generate_single_day: what it was given and what came of it.
DayCall(pc, day_number, prefs, targets, result) ==
    [pc |-> pc, day_number |-> day_number, prefs |-> prefs, targets |-> targets,
     result |-> result]
NoDayCall ==
    DayCall("none", 0, Preferences(0, <<>>, <<>>), Targets(0, 0, 0, 0),
            DayResult("none", FALSE, NoDayPlan))

\* generate_single_day run on the input of dcall, with any draws.
GenerateSingleDay ==
    /\ dcall.pc = "called"
    /\ \E draws \in DayDraws(dcall.prefs, dcall.targets) :
           dcall' = [dcall EXCEPT
                        !.pc = "returned",
                        !.result = generate_single_day(dcall.day_number, dcall.prefs,
                                                       dcall.targets, draws)]
    /\ UNCHANGED <<mealVars, workoutVars, validateVars, icall, scall, pcall, appVars>>

\* ---- generate_ingredients called on its own ----
IngredientsCall(pc, mealType, foodsDislike, allergies, result) ==
    [pc |-> pc, mealType |-> mealType, foodsDislike |-> foodsDislike,
     allergies |-> allergies, result |-> result]
NoIngredientsCall == IngredientsCall("none", "", <<>>, <<>>, <<>>)

GenerateIngredients ==
    /\ icall.pc = "called"
    /\ icall' = [icall EXCEPT
                    !.pc = "returned",
                    !.result = generate_ingredients(icall.mealType, icall.foodsDislike,
                                                    icall.allergies)]
    /\ UNCHANGED <<mealVars, workoutVars, validateVars, dcall, scall, pcall, appVars>>

\* ---- generate_shopping_list ----
\* The lists of a list of lists, one after the other.
RECURSIVE Concat(_)
Concat(lists) == IF lists = <<>> THEN <<>> ELSE Head(lists) \o Concat(Tail(lists))

\* The ingredients in the order the loops of lines 215-217 meet them.
CollectedIngredients(days) ==
    Concat([d \in DOMAIN days |->
               Concat([m \in DOMAIN days[d].meals |-> days[d].meals[m].ingredients])])

\* Every collected name, repeats included.
IngredientNames_Repeated(flat) == [i \in DOMAIN flat |-> flat[i].name]

\* The keys of all_ingredients (lines 218-219): each name once, in the order
\* of its first occurrence.
IngredientNames(flat) ==
    LET first == SelectSeq([i \in DOMAIN flat |-> i],
                           LAMBDA i : \A j \in 1..(i - 1) : flat[j].name # flat[i].name)
    IN  [k \in DOMAIN first |-> flat[first[k]].name]

\* all_ingredients[name] (line 220): the amounts collected for the name.
CollectedAmounts(flat, name) ==
    LET hits == SelectSeq(flat, LAMBDA ing : ing.name = name)
    IN  [i \in DOMAIN hits |-> hits[i].amount]

Placeholder == "1x"

\* Line 236: "1x" if len(amounts) > 0 else amounts[0].
total_amount(amounts) == IF Len(amounts) > 0 THEN Placeholder ELSE amounts[1]

\* The order with Pantry in front.
CategoryOrder_PantryFirst == <<"Pantry", "Protein", "Vegetables", "Carbs", "Dairy">>

\* The keys of categories in the order of lines 223-229.
CategoryOrder == <<"Protein", "Vegetables", "Carbs", "Dairy", "Pantry">>
OtherCategory == "Other"

\* categories[category] (lines 223-229).
Keywords(category) ==
    CASE category = "Protein" ->
        <<<<"c", "h", "i", "c", "k", "e", "n">>,
           <<"b", "e", "e", "f">>,
           <<"p", "o", "r", "k">>,
           <<"f", "i", "s", "h">>,
           <<"s", "a", "l", "m", "o", "n">>,
           <<"t", "u", "n", "a">>,
           <<"e", "g", "g", "s">>,
           <<"t", "o", "f", "u">>,
           <<"t", "e", "m", "p", "e", "h">>>>
      [] category = "Vegetables" ->
        <<<<"b", "r", "o", "c", "c", "o", "l", "i">>,
           <<"s", "p", "i", "n", "a", "c", "h">>,
           <<"c", "a", "r", "r", "o", "t", "s">>,
           <<"b", "e", "l", "l", " ", "p", "e", "p", "p", "e", "r">>,
           <<"t", "o", "m", "a", "t", "o">>,
           <<"o", "n", "i", "o", "n">>,
           <<"g", "a", "r", "l", "i", "c">>,
           <<"v", "e", "g", "e", "t", "a", "b", "l", "e", "s">>>>
      [] category = "Carbs" ->
        <<<<"r", "i", "c", "e">>,
           <<"p", "a", "s", "t", "a">>,
           <<"b", "r", "e", "a", "d">>,
           <<"p", "o", "t", "a", "t", "o">>,
           <<"q", "u", "i", "n", "o", "a">>,
           <<"o", "a", "t", "s">>>>
      [] category = "Dairy" ->
        <<<<"m", "i", "l", "k">>,
           <<"c", "h", "e", "e", "s", "e">>,
           <<"y", "o", "g", "u", "r", "t">>,
           <<"b", "u", "t", "t", "e", "r">>>>
      [] category = "Pantry" ->
        <<<<"o", "i", "l">>,
           <<"s", "p", "i", "c", "e", "s">>,
           <<"s", "a", "l", "t">>,
           <<"p", "e", "p", "p", "e", "r">>,
           <<"f", "l", "o", "u", "r">>,
           <<"s", "u", "g", "a", "r">>>>

\* Line 243: any(keyword in ingredient_lower for keyword in keywords).
KeywordMatch(category, ingredient_lower) ==
    \E keyword \in Range(Keywords(category)) : StrIn(keyword, ingredient_lower)

\* Lines 240-253: the first category of the loop that matches the lower-cased
\* name, or Other.
CategoryOf(name) ==
    LET ingredient_lower == lower(name)
        hits == SelectSeq(CategoryOrder,
                          LAMBDA category : KeywordMatch(category, ingredient_lower))
    IN  IF hits = <<>> THEN OtherCategory ELSE Head(hits)

ShoppingListItem(name, amount) == [name |-> name, amount |-> amount]
ShoppingListCategory(category, items) == [category |-> category, items |-> items]

\* generate_shopping_list (lines 207-263); preferences is not used.
generate_shopping_list(days) ==
    LET flat == CollectedIngredients(days)
        names == IngredientNames(flat)
        placed == [i \in DOMAIN names |-> CategoryOf(names[i])]
        items == [i \in DOMAIN names |->
                     ShoppingListItem(names[i], total_amount(CollectedAmounts(flat, names[i])))]
        itemsOf(category) ==
            LET mine == SelectSeq([i \in DOMAIN names |-> i],
                                  LAMBDA i : placed[i] = category)
            IN  [k \in DOMAIN mine |-> items[mine[k]]]
        order == CategoryOrder \o <<OtherCategory>>
        categorized == [i \in DOMAIN order |-> ShoppingListCategory(order[i], itemsOf(order[i]))]
    IN  SelectSeq(categorized, LAMBDA c : c.items # <<>>)

ShoppingCall(pc, days, result) == [pc |-> pc, days |-> days, result |-> result]
NoShoppingCall == ShoppingCall("none", <<>>, <<>>)

GenerateShoppingList ==
    /\ scall.pc = "called"
    /\ scall' = [scall EXCEPT !.pc = "returned",
                              !.result = generate_shopping_list(scall.days)]
    /\ UNCHANGED <<mealVars, workoutVars, validateVars, dcall, icall, pcall, appVars>>

\* ---- generate_meal_plan and POST /meal-plan/generate ----
MealPlanData(preferences, days, shoppingList, generatedAt) ==
    [preferences |-> preferences, days |-> days, shoppingList |-> shoppingList,
     generatedAt |-> generatedAt]
NoMealPlanData == MealPlanData(Preferences(0, <<>>, <<>>), <<>>, <<>>, 0)

PlanResult(outcome, plan) == [outcome |-> outcome, plan |-> plan]

\* range(1, duration + 1) (line 30).
DayNumbers(duration) == [i \in 1..duration |-> i]

\* generate_meal_plan (lines 17-41); draws[i] are the draws of the i-th day.
\* An exception of a day leaves the function.
generate_meal_plan(preferences, targets, duration, draws, generatedAt) ==
    LET day_nums == DayNumbers(duration)
        results == [i \in DOMAIN day_nums |->
                       generate_single_day(day_nums[i], preferences, targets, draws[i])]
        days == [i \in DOMAIN results |-> results[i].plan]
    IN  IF \E i \in DOMAIN results : results[i].outcome # "ok"
        THEN PlanResult(results[CHOOSE i \in DOMAIN results :
                                    /\ results[i].outcome # "ok"
                                    /\ \A j \in 1..(i - 1) : results[j].outcome = "ok"].outcome,
                        NoMealPlanData)
        ELSE PlanResult("ok", MealPlanData(preferences, days,
                                           generate_shopping_list(days), generatedAt))

\* The draws of every day of a plan.
PlanDraws(preferences, targets, duration) ==
    [DOMAIN DayNumbers(duration) -> DayDraws(preferences, targets)]

\* current_user of the endpoint (get_current_user).
CurrentUser(id, role) == [id |-> id, role |-> role]

\* MealPlanGenerateRequest.
MealPlanGenerateRequest(userId, preferences, targets, duration) ==
    [userId |-> userId, preferences |-> preferences, targets |-> targets,
     duration |-> duration]

\* A call of the endpoint: who called, the request, the answer.
PlanCall(pc, current_user, request, status, body) ==
    [pc |-> pc, current_user |-> current_user, request |-> request,
     status |-> status, body |-> body]
NoPlanCall ==
    PlanCall("none", CurrentUser(0, "user"),
             MealPlanGenerateRequest(0, Preferences(0, <<>>, <<>>), NoDraw, 0),
             0, NoMealPlanData)

HTTP_200 == 200
HTTP_403 == 403
HTTP_500 == 500

\* POST /meal-plan/generate (main.py lines 420-444).
MealPlanGenerate ==
    /\ pcall.pc = "called"
    /\ LET request == pcall.request
       IN  IF pcall.current_user.role # "admin" /\ pcall.current_user.id # request.userId
           THEN pcall' = [pcall EXCEPT !.pc = "returned", !.status = HTTP_403]
           ELSE \E draws \in PlanDraws(request.preferences, request.targets,
                                       request.duration) :
                    LET meal_plan == generate_meal_plan(request.preferences, request.targets,
                                                        request.duration, draws, now)
                    IN  IF meal_plan.outcome = "ok"
                        THEN pcall' = [pcall EXCEPT !.pc = "returned",
                                                    !.status = HTTP_200,
                                                    !.body = meal_plan.plan]
                        ELSE pcall' = [pcall EXCEPT !.pc = "returned",
                                                    !.status = HTTP_500]
    /\ UNCHANGED <<mealVars, workoutVars, validateVars, dcall, icall, scall, appVars>>

(***************************************************************************)
(* workout_plan_json_to_pdf_bytes: ai_workout_service.py                   *)
(* Lengths are in hundredths of a centimetre; y is the height of the       *)
(* cursor above the bottom edge of the page.                               *)
(***************************************************************************)
PageHeight == 2970      \* H of A4
TopOffset == 160        \* 1.6 * cm
BottomMargin == 200     \* 2.0 * cm
Top == PageHeight - TopOffset

\* What the function does in order: a call of line with its gap, or a
\* statement y -= gap.
LineOp(gap) == <<[op |-> "line", gap |-> gap]>>
GapOp(gap) == <<[op |-> "gap", gap |-> gap]>>

\* A heading followed by one bullet line per entry, when there are entries.
Bullets(count, headingGap) ==
    IF count = 0 THEN <<>>
    ELSE LineOp(headingGap) \o Concat([i \in 1..count |-> LineOp(45)])

\* Lines 423-441: the lines of one exercise.
ExerciseOps(ex) ==
    LineOp(48) \o LineOp(42)
    \o (IF ex.tempoOrIntensity THEN LineOp(42) ELSE <<>>)
    \o (IF ex.notes THEN LineOp(42) ELSE <<>>)
    \o (IF ex.substitutions THEN LineOp(50) ELSE <<>>)

\* Lines 406-461: one day.
DayOps(d) ==
    LineOp(65)
    \o (IF d.focus THEN LineOp(45) ELSE <<>>)
    \o (IF d.estimated_time_min THEN LineOp(55) ELSE <<>>)
    \o Bullets(d.warmup, 50)
    \o (IF d.exercises = <<>> THEN <<>>
        ELSE GapOp(10) \o LineOp(50)
             \o Concat([i \in DOMAIN d.exercises |-> ExerciseOps(d.exercises[i])]))
    \o Bullets(d.finisher_optional, 50)
    \o Bullets(d.cooldown, 50)
    \o Bullets(d.day_notes, 50)
    \o GapOp(40)

\* Lines 383-466: everything the function draws for a plan.
PdfOps(plan) ==
    LineOp(80) \o LineOp(60) \o LineOp(70)
    \o (IF plan.progression_notes = 0 THEN <<>>
        ELSE Bullets(plan.progression_notes, 55) \o GapOp(20))
    \o Concat([i \in DOMAIN plan.days |-> DayOps(plan.days[i])])
    \o GapOp(20) \o LineOp(50) \o LineOp(45)

\* The test of line 371 left out.
NeedsNewPage_Never(y) == FALSE

\* Line 371: if y < 2.0 * cm.
NeedsNewPage(y) == y < BottomMargin

NoDrawn == [before |-> 0, y |-> 0, pageBefore |-> 0, page |-> 0]
PdfState(pc, ops, at, y, page, lines, last) ==
    [pc |-> pc, ops |-> ops, at |-> at, y |-> y, page |-> page, lines |-> lines,
     last |-> last]
NoPdf == PdfState("none", <<>>, 1, 0, 0, 0, NoDrawn)

\* Lines 362-367: a call of the function for a plan.
PdfStart(plan) == PdfState("drawing", PdfOps(plan), 1, Top, 1, 0, NoDrawn)

\* line(txt, size, bold, gap) (lines 369-377).
Line ==
    /\ pdf.pc = "drawing"
    /\ pdf.at <= Len(pdf.ops)
    /\ pdf.ops[pdf.at].op = "line"
    /\ LET newPage == NeedsNewPage(pdf.y)
           y == IF newPage THEN Top ELSE pdf.y
           page == IF newPage THEN pdf.page + 1 ELSE pdf.page
       IN  pdf' = [pdf EXCEPT
                      !.at = pdf.at + 1,
                      !.y = y - pdf.ops[pdf.at].gap,
                      !.page = page,
                      !.lines = pdf.lines + 1,
                      !.last = [before |-> pdf.y, y |-> y,
                                pageBefore |-> pdf.page, page |-> page]]
    /\ UNCHANGED <<planVars, authVars, favVars, supVars>>

\* y -= gap outside line (lines 403, 421, 461, 464).
ExtraGap ==
    /\ pdf.pc = "drawing"
    /\ pdf.at <= Len(pdf.ops)
    /\ pdf.ops[pdf.at].op = "gap"
    /\ pdf' = [pdf EXCEPT !.at = pdf.at + 1, !.y = pdf.y - pdf.ops[pdf.at].gap]
    /\ UNCHANGED <<planVars, authVars, favVars, supVars>>

\* c.save() and the return (lines 468-471).
PdfSave ==
    /\ pdf.pc = "drawing"
    /\ pdf.at > Len(pdf.ops)
    /\ pdf' = [pdf EXCEPT !.pc = "saved"]
    /\ UNCHANGED <<planVars, authVars, favVars, supVars>>

(***************************************************************************)
(* Accounts: main.py signup, login, toggle_user_status; crud.py            *)
(* create_user, request_password_reset, reset_password                     *)
(***************************************************************************)
\* auth.hash_password and auth.verify_password: the hash is not the password,
\* and a password verifies against its own hash only.
hash_password(password) == <<"hash", password>>
verify_password(plain, hashed) == hashed = hash_password(plain)

\* crud.is_valid_email: ^[^@\s]+@[^@\s]+\.[^@\s]+$ on a text without line ends.
is_valid_email(email) ==
    \E i \in DOMAIN email :
        /\ email[i] = "@"
        /\ i > 1
        /\ \A k \in DOMAIN email : email[k] # " " /\ (email[k] = "@" => k = i)
        /\ \E j \in (i + 2)..(Len(email) - 1) : email[j] = "."

NoEmail == <<>>

\* A row of users.  password_reset_token 0 and password_reset_expires -1 are NULL.
UserRow(id, first_name, password, email) ==
    [id |-> id, first_name |-> first_name, password |-> password, email |-> email,
     active |-> TRUE, password_reset_token |-> 0, password_reset_expires |-> -1]

AuthResp(op, status, name, password, token) ==
    [op |-> op, status |-> status, name |-> name, password |-> password, token |-> token]
NoAuthResp == AuthResp("none", 0, "", "", 0)

\* The lookup of signup finding nobody, whoever is stored.
NameTaken_Never(first_name) == FALSE

\* crud.get_user_by_name(db, first_name) finds a row.
NameTaken(first_name) == \E u \in users : u.first_name = first_name

\* POST /signup (main.py lines 51-56) with crud.create_user (crud.py lines
\* 37-98).  create_user raises ValueError for a malformed email before it
\* adds the row; nothing catches it.
Signup(first_name, password, email) ==
    /\ IF NameTaken(first_name)
       THEN /\ aresp' = AuthResp("signup", 400, first_name, password, 0)
            /\ UNCHANGED <<users, nextUserId>>
       ELSE IF email # NoEmail /\ ~is_valid_email(email)
       THEN /\ aresp' = AuthResp("signup", 500, first_name, password, 0)
            /\ UNCHANGED <<users, nextUserId>>
       ELSE /\ nextUserId <= MaxUsers
            /\ users' = users \cup {UserRow(nextUserId, first_name,
                                            hash_password(password), email)}
            /\ nextUserId' = nextUserId + 1
            /\ aresp' = AuthResp("signup", 200, first_name, password, 0)
    /\ UNCHANGED <<clock, issued, planVars, pdf, favVars, supVars>>

\* The test of the active flag left out.
Deactivated_Never(user) == FALSE

\* Line 73: if not user.active.
Deactivated(user) == ~user.active

\* POST /login (main.py lines 59-90).  first() may hand back any of the rows
\* with the name; the access token is written as 1.
Login(first_name, password) ==
    /\ IF ~NameTaken(first_name)
       THEN aresp' = AuthResp("login", 401, first_name, password, 0)
       ELSE \E user \in {u \in users : u.first_name = first_name} :
                aresp' = IF ~verify_password(password, user.password)
                         THEN AuthResp("login", 401, first_name, password, 0)
                         ELSE IF Deactivated(user)
                         THEN AuthResp("login", 403, first_name, password, 0)
                         ELSE AuthResp("login", 200, first_name, password, 1)
    /\ UNCHANGED <<users, nextUserId, clock, issued, planVars, pdf, favVars, supVars>>

\* PUT /admin/user/{user_id}/status (main.py lines 221-232); data.get("active",
\* True) reads a missing key as True.
ToggleUserStatus(user_id, active) ==
    /\ IF \E u \in users : u.id = user_id
       THEN /\ users' = {IF u.id = user_id
                         THEN [u EXCEPT !.active = (active # "false")]
                         ELSE u : u \in users}
            /\ aresp' = AuthResp("status", 200, "", "", 0)
       ELSE /\ aresp' = AuthResp("status", 404, "", "", 0)
            /\ UNCHANGED users
    /\ UNCHANGED <<nextUserId, clock, issued, planVars, pdf, favVars, supVars>>

ResetLifetime == 2      \* timedelta(hours=1), in half hours

\* The expiry test of reset_password letting every token through.
ResetExpired_Never(user, utcnow) == FALSE

\* crud.py line 311: not user.password_reset_expires or
\* user.password_reset_expires < datetime.utcnow().
ResetExpired(user, utcnow) ==
    user.password_reset_expires = -1 \/ user.password_reset_expires < utcnow

\* crud.request_password_reset (crud.py lines 288-304).  The token of
\* generate_verification_token is one that was never handed out before; the
\* mail that carries it may fail without effect on the row.
RequestPasswordReset(email) ==
    /\ IF \E u \in users : u.email = email
       THEN /\ Len(issued) < MaxResetTokens
            /\ \E user \in {u \in users : u.email = email} :
                   LET token == Len(issued) + 1
                       expires == clock + ResetLifetime
                   IN  /\ users' = (users \ {user}) \cup
                               {[user EXCEPT !.password_reset_token = token,
                                             !.password_reset_expires = expires]}
                       /\ issued' = Append(issued, [user |-> user.id, expires |-> expires,
                                                    uses |-> 0])
                       /\ aresp' = AuthResp("request", 200, "", "", token)
       ELSE /\ aresp' = AuthResp("request", 0, "", "", 0)
            /\ UNCHANGED <<users, issued>>
    /\ UNCHANGED <<nextUserId, clock, planVars, pdf, favVars, supVars>>

\* crud.reset_password (crud.py lines 307-319).  Token 0 is None, which the
\* filter compares with IS NULL.
ResetPassword(token, new_password) ==
    /\ IF ~\E u \in users : u.password_reset_token = token
       THEN /\ aresp' = AuthResp("reset", 0, "", new_password, token)
            /\ UNCHANGED <<users, issued>>
       ELSE \E user \in {u \in users : u.password_reset_token = token} :
                IF ResetExpired(user, clock)
                THEN /\ aresp' = AuthResp("reset", 0, "", new_password, token)
                     /\ UNCHANGED <<users, issued>>
                ELSE /\ users' = (users \ {user}) \cup
                            {[user EXCEPT !.password = hash_password(new_password),
                                          !.password_reset_token = 0,
                                          !.password_reset_expires = -1]}
                     /\ issued' = IF token \in DOMAIN issued
                                  THEN [issued EXCEPT ![token].uses = @ + 1]
                                  ELSE issued
                     /\ aresp' = AuthResp("reset", 200, user.first_name, new_password, token)
    /\ UNCHANGED <<nextUserId, clock, planVars, pdf, favVars, supVars>>

\* Time passes.
Tick ==
    /\ clock < MaxClock
    /\ clock' = clock + 1
    /\ UNCHANGED <<users, nextUserId, aresp, issued, planVars, pdf, favVars, supVars>>

(***************************************************************************)
(* Favourites (main.py add_fav, remove_fav, check_favorite; crud.py).      *)
(* favorites is the table; lastFav records, for each pair, the last add or *)
(* remove that succeeded.                                                  *)
(***************************************************************************)
MaxFavorites == 4       \* rows ever inserted into favorites
FavUsers == {1, 2}
FavSupplements == {1, 2}
FavPairs == FavUsers \X FavSupplements

FavoriteRow(id, user_id, sup_id) == [id |-> id, user_id |-> user_id, supplement_id |-> sup_id]

\* crud.get_favorite_by_user_and_supplement before .first(): the rows of the pair.
FavRowsOf(user_id, sup_id) ==
    {f \in favorites : f.user_id = user_id /\ f.supplement_id = sup_id}

FavResp(op, status, user_id, sup_id, is_favorite, favorite_id) ==
    [op |-> op, status |-> status, user_id |-> user_id, sup_id |-> sup_id,
     is_favorite |-> is_favorite, favorite_id |-> favorite_id]
NoFavResp == FavResp("none", 0, 0, 0, FALSE, 0)

\* add_fav without its test for an existing row.
AlreadyFavorite_Never(user_id, sup_id) == FALSE

\* main.py lines 187-188: existing = crud.get_favorite_by_user_and_supplement(...)
AlreadyFavorite(user_id, sup_id) == FavRowsOf(user_id, sup_id) # {}

\* POST /favorites/{user_id}/{sup_id} (main.py lines 184-191, crud.add_favorite).
AddFav(user_id, sup_id) ==
    /\ IF AlreadyFavorite(user_id, sup_id)
       THEN /\ fresp' = FavResp("add", 400, user_id, sup_id, FALSE, 0)
            /\ UNCHANGED <<favorites, nextFavId, lastFav>>
       ELSE /\ nextFavId <= MaxFavorites
            /\ favorites' = favorites \cup {FavoriteRow(nextFavId, user_id, sup_id)}
            /\ nextFavId' = nextFavId + 1
            /\ lastFav' = [lastFav EXCEPT ![<<user_id, sup_id>>] = "add"]
            /\ fresp' = FavResp("add", 200, user_id, sup_id, FALSE, nextFavId)
    /\ UNCHANGED <<planVars, pdf, authVars, supVars>>

\* DELETE /favorites/{user_id}/{sup_id} (main.py lines 203-211, crud.remove_favorite).
RemoveFav(user_id, sup_id) ==
    /\ IF FavRowsOf(user_id, sup_id) = {}
       THEN /\ fresp' = FavResp("remove", 404, user_id, sup_id, FALSE, 0)
            /\ UNCHANGED <<favorites, lastFav>>
       ELSE \E fav \in FavRowsOf(user_id, sup_id) :
                /\ favorites' = {f \in favorites : f.id # fav.id}
                /\ lastFav' = [lastFav EXCEPT ![<<user_id, sup_id>>] = "remove"]
                /\ fresp' = FavResp("remove", 200, user_id, sup_id, FALSE, fav.id)
    /\ UNCHANGED <<nextFavId, planVars, pdf, authVars, supVars>>

\* GET /favorites/check/{user_id}/{sup_id} (main.py lines 359-363).
CheckFavorite(user_id, sup_id) ==
    /\ IF FavRowsOf(user_id, sup_id) = {}
       THEN fresp' = FavResp("check", 200, user_id, sup_id, FALSE, 0)
       ELSE \E fav \in FavRowsOf(user_id, sup_id) :
                fresp' = FavResp("check", 200, user_id, sup_id, TRUE, fav.id)
    /\ UNCHANGED <<favorites, nextFavId, lastFav, planVars, pdf, authVars, supVars>>

(***************************************************************************)
(* Supplements (main.py add_supplement, delete_supplement; crud.py;        *)
(* utils.py).  files is the content of the uploads directory.  A string is *)
(* a sequence of characters; <<>> is None.                                 *)
(***************************************************************************)
MaxSupplements == 3     \* rows ever inserted into supplements
Digits == <<"1", "2", "3", "4", "5", "6", "7", "8", "9">>
NoFile == <<>>

\* utils.save_uploaded_file names the stored file uuid4().ext: a name no
\* other file has.
Filename(n) == <<Digits[n], "f", ".", "j", "p", "g">>

SupplementRow(id, image_url) == [id |-> id, image_url |-> image_url]

\* crud.add_supplement (crud.py lines 101-134) computes image_url as
\* image_filenames[0].  main.py line 114 passes the file name, a string, in
\* the place of image_filenames, so image_url is its first character.
image_url_of(image_filenames) ==
    IF image_filenames # NoFile THEN <<image_filenames[1]>> ELSE NoFile

\* utils.delete_uploaded_file (utils.py lines 30-42).
delete_uploaded_file(dir, filename) ==
    IF filename = NoFile THEN dir ELSE dir \ {filename}

SupResp(op, status, sup_id) == [op |-> op, status |-> status, sup_id |-> sup_id]
NoSupResp == SupResp("none", 0, 0)

\* POST /supplements (main.py lines 94-114).
AddSupplement(image) ==
    /\ nextSupId <= MaxSupplements
    /\ LET image_filename == IF image THEN Filename(nextSupId) ELSE NoFile
       IN  /\ files' = IF image THEN files \cup {image_filename} ELSE files
           /\ supplements' = supplements \cup
                  {SupplementRow(nextSupId, image_url_of(image_filename))}
    /\ nextSupId' = nextSupId + 1
    /\ sresp' = SupResp("add", 200, nextSupId)
    /\ UNCHANGED <<planVars, pdf, authVars, favVars>>

\* crud.delete_supplement (crud.py lines 183-189) returns False or True.
crud_delete_supplement(sup_id) == \E sup \in supplements : sup.id = sup_id

\* Whether sup.image_url can be read: a bool has no such attribute.
HasImageUrl(sup) == sup \notin BOOLEAN

\* DELETE /supplements/{sup_id} (main.py lines 169-180).  db.delete(sup)
\* takes the supplement's favourites with it (models.py line 63) and is
\* committed before crud.delete_supplement returns.
DeleteSupplement(sup_id) ==
    /\ LET sup == crud_delete_supplement(sup_id)
       IN  IF ~sup
           THEN /\ sresp' = SupResp("delete", 404, sup_id)
                /\ UNCHANGED <<supplements, favorites, files>>
           ELSE /\ supplements' = {r \in supplements : r.id # sup_id}
                /\ favorites' = {f \in favorites : f.supplement_id # sup_id}
                /\ IF ~HasImageUrl(sup)
                   THEN /\ sresp' = SupResp("delete", 500, sup_id)    \* AttributeError
                        /\ UNCHANGED files
                   ELSE /\ files' = delete_uploaded_file(files, sup.image_url)
                        /\ sresp' = SupResp("delete", 200, sup_id)
    /\ UNCHANGED <<nextSupId, nextFavId, fresp, lastFav, planVars, pdf, authVars>>

\* No call of the later handlers has begun, no account, favourite or supplement
\* is stored.
AuthIdle ==
    /\ users = {}
    /\ nextUserId = 1
    /\ clock = 0
    /\ aresp = NoAuthResp
    /\ issued = <<>>
FavIdle ==
    /\ favorites = {}
    /\ nextFavId = 1
    /\ fresp = NoFavResp
    /\ lastFav = [pair \in FavPairs |-> "none"]
SupIdle ==
    /\ supplements = {}
    /\ nextSupId = 1
    /\ files = {}
    /\ sresp = NoSupResp
AppIdle ==
    /\ pdf = NoPdf
    /\ AuthIdle
    /\ FavIdle
    /\ SupIdle

Init ==
    /\ mealplans = {}
    /\ nextMealId = 1
    /\ now = 0
    /\ req = [p \in Workers |-> Idle]
    /\ resp = NoResp
    /\ workout_plans = {}
    /\ nextWorkoutId = 1
    /\ wlast = NoWorkoutCall
    /\ vcand = NoCandidate
    /\ vout = "none"
    /\ dcall = NoDayCall
    /\ icall = NoIngredientsCall
    /\ scall = NoShoppingCall
    /\ pcall = NoPlanCall
    /\ AppIdle

\* Handlers interleave at their commits.
Next == \E p \in Workers : MealStep(p)
Spec == Init /\ [][Next]_vars

\* One handler, one call at a time.
NextSeq == MealStep(SeqWorker)
SpecSeq == Init /\ [][NextSeq]_vars

\* Calls of the workout service, one at a time.
WorkoutCallers == {1, 3}
NextWorkout ==
    \/ \E u \in WorkoutCallers, days \in DaysInputs : GenerateWorkoutNoAnswer(u, days)
    \/ \E u \in WorkoutCallers, days \in DaysInputs, c \in WorkoutCandidates, dbOk \in BOOLEAN :
           GenerateWorkout(u, days, c, dbOk)
    \/ \E u \in WorkoutCallers, days \in DaysInputs : generate_ai_workout_plan(u, days)
SpecWorkout == Init /\ [][NextWorkout]_vars

\* _schema_min_validate applied to one candidate after the other.
InitValidate ==
    /\ mealplans = {}
    /\ nextMealId = 1
    /\ now = 0
    /\ req = [p \in Workers |-> Idle]
    /\ resp = NoResp
    /\ workout_plans = {}
    /\ nextWorkoutId = 1
    /\ wlast = NoWorkoutCall
    /\ vcand \in ValidateCandidates
    /\ vout = "none"
    /\ dcall = NoDayCall
    /\ icall = NoIngredientsCall
    /\ scall = NoShoppingCall
    /\ pcall = NoPlanCall
    /\ AppIdle
NextValidate ==
    \/ Validate
    \/ \E c \in ValidateCandidates : NextCandidate(c)
SpecValidate == InitValidate /\ [][NextValidate]_vars

\* Targets given to generate_single_day: every calorie target on its own, no
\* calories with the other macros set, and calories together with protein.
DayTargetInputs ==
    {Targets(c, 0, 0, 0) : c \in 0..MaxCalories}
    \cup {Targets(0, p, cb, f) : p \in {0, MaxCalories}, cb \in {0, 1}, f \in {0, 1}}
    \cup {Targets(MaxCalories - 1, MaxCalories - 1, 0, 0)}

\* generate_single_day called once, on any of the inputs.
InitDay ==
    /\ mealplans = {}
    /\ nextMealId = 1
    /\ now = 0
    /\ req = [p \in Workers |-> Idle]
    /\ resp = NoResp
    /\ workout_plans = {}
    /\ nextWorkoutId = 1
    /\ wlast = NoWorkoutCall
    /\ vcand = NoCandidate
    /\ vout = "none"
    /\ dcall \in {DayCall("called", 1, Preferences(n, <<>>, <<>>), t,
                          DayResult("none", FALSE, NoDayPlan)) :
                      n \in 0..MaxMealsPerDay, t \in DayTargetInputs}
    /\ icall = NoIngredientsCall
    /\ scall = NoShoppingCall
    /\ pcall = NoPlanCall
    /\ AppIdle
NextDay == GenerateSingleDay
SpecDay == InitDay /\ [][NextDay]_vars

\* ---- inputs of generate_ingredients ----
\* Lists of at most MaxTokens entries taken from tokens.
ListsOf(tokens) == UNION {[1..n -> tokens] : n \in 0..MaxTokens}

\* Disliked foods a caller can name: a catalog name in other case, a part of a
\* name, a name of two words.
DislikeTokens == {<<"E", "G", "G", "S">>, <<"e", "g", "g">>, <<"B", "r", "o", "w", "n", " ", "R", "i", "c", "e">>, <<"s", "a", "l", "m", "o", "n">>}

\* Allergy tokens: a part of a name in other case, a part of several names,
\* a whole name, the empty token.
AllergyTokens == {<<"N", "U", "T">>, <<"a", "n">>, <<"B", "r", "o", "c", "c", "o", "l", "i">>, <<>>}

\* The meal types of the catalog and one it does not have.
MealTypeInputs == Range(MealTypeNames) \cup {"Brunch"}

InitIngredients ==
    /\ mealplans = {}
    /\ nextMealId = 1
    /\ now = 0
    /\ req = [p \in Workers |-> Idle]
    /\ resp = NoResp
    /\ workout_plans = {}
    /\ nextWorkoutId = 1
    /\ wlast = NoWorkoutCall
    /\ vcand = NoCandidate
    /\ vout = "none"
    /\ dcall = NoDayCall
    /\ icall \in {IngredientsCall("called", mt, d, a, <<>>) :
                      mt \in MealTypeInputs, d \in ListsOf(DislikeTokens),
                      a \in ListsOf(AllergyTokens)}
    /\ scall = NoShoppingCall
    /\ pcall = NoPlanCall
    /\ AppIdle
NextIngredients == GenerateIngredients
SpecIngredients == InitIngredients /\ [][NextIngredients]_vars

\* ---- inputs of generate_shopping_list ----
\* Ingredient lists of a meal: the catalog's lists, a name with another amount
\* and in another case, names that match keywords of two categories, a name
\* twice in one meal, no ingredient at all.
ShoppingMeals ==
    {base_ingredients(mt) : mt \in Range(MealTypeNames)}
    \cup { <<Ingredient(<<"E", "g", "g", "s">>, "3 pieces"), Ingredient(<<"e", "g", "g", "s">>, "2 pieces")>>,
           <<Ingredient(<<"B", "e", "l", "l", " ", "p", "e", "p", "p", "e", "r">>, "1 piece"), Ingredient(<<"F", "i", "s", "h", " ", "o", "i", "l">>, "1 tbsp")>>,
           <<Ingredient(<<"R", "i", "c", "e", " ", "m", "i", "l", "k">>, "200ml"), Ingredient(<<"E", "g", "g", "s">>, "2 pieces"),
             Ingredient(<<"E", "g", "g", "s">>, "2 pieces")>>,
           <<>> }

\* A day of one meal with the given ingredients.
ShoppingDay(day_number, ingredients) ==
    DayPlan(day_number, Targets(0, 0, 0, 0), Targets(0, 0, 0, 0),
            <<Meal("Lunch", day_number, NoDraw, ingredients)>>)

ShoppingDays ==
    UNION {{[d \in 1..n |-> ShoppingDay(d, meals[d])] : meals \in [1..n -> ShoppingMeals]} :
               n \in 0..MaxShopDays}

InitShopping ==
    /\ mealplans = {}
    /\ nextMealId = 1
    /\ now = 0
    /\ req = [p \in Workers |-> Idle]
    /\ resp = NoResp
    /\ workout_plans = {}
    /\ nextWorkoutId = 1
    /\ wlast = NoWorkoutCall
    /\ vcand = NoCandidate
    /\ vout = "none"
    /\ dcall = NoDayCall
    /\ icall = NoIngredientsCall
    /\ scall \in {ShoppingCall("called", days, <<>>) : days \in ShoppingDays}
    /\ pcall = NoPlanCall
    /\ AppIdle
NextShopping == GenerateShoppingList
SpecShopping == InitShopping /\ [][NextShopping]_vars

\* ---- inputs of POST /meal-plan/generate ----
\* The caller asks for an own plan, for the plan of another user, or is admin.
PlanCallers ==
    {<<CurrentUser(1, "user"), 1>>, <<CurrentUser(1, "user"), 3>>,
     <<CurrentUser(2, "admin"), 1>>}

\* Duration, mealsPerDay and targets.  With targets of 0 or 7 every draw of
\* line 78 has one value for 3 and for 5 meals a day; with 20 calories and 3
\* meals a day each draw is 6 or 7.
PlanInputs ==
    {<<d, n, Targets(c, c, c, c)>> : d \in (-1)..MaxDuration, n \in {0, 3, 5}, c \in {0, 7}}
    \cup {<<d, 3, Targets(20, 0, 0, 0)>> : d \in 0..MaxDrawnDays}

InitPlan ==
    /\ mealplans = {}
    /\ nextMealId = 1
    /\ now = 0
    /\ req = [p \in Workers |-> Idle]
    /\ resp = NoResp
    /\ workout_plans = {}
    /\ nextWorkoutId = 1
    /\ wlast = NoWorkoutCall
    /\ vcand = NoCandidate
    /\ vout = "none"
    /\ dcall = NoDayCall
    /\ icall = NoIngredientsCall
    /\ scall = NoShoppingCall
    /\ pcall \in {PlanCall("called", who[1],
                           MealPlanGenerateRequest(who[2], Preferences(in[2], <<>>, <<>>),
                                                   in[3], in[1]),
                           0, NoMealPlanData) :
                      who \in PlanCallers, in \in PlanInputs}
    /\ AppIdle
NextPlan == MealPlanGenerate
SpecPlan == InitPlan /\ [][NextPlan]_vars

\* The rest of the state at rest: no plan stored, no call of the plan
\* handlers begun.
PlansIdle ==
    /\ mealplans = {}
    /\ nextMealId = 1
    /\ now = 0
    /\ req = [p \in Workers |-> Idle]
    /\ resp = NoResp
    /\ workout_plans = {}
    /\ nextWorkoutId = 1
    /\ wlast = NoWorkoutCall
    /\ vcand = NoCandidate
    /\ vout = "none"
    /\ dcall = NoDayCall
    /\ icall = NoIngredientsCall
    /\ scall = NoShoppingCall
    /\ pcall = NoPlanCall

\* ---- inputs of workout_plan_json_to_pdf_bytes ----
PdfExercise(tempoOrIntensity, notes, substitutions) ==
    [tempoOrIntensity |-> tempoOrIntensity, notes |-> notes,
     substitutions |-> substitutions]
PdfDay(focus, estimated_time_min, warmup, exercises, finisher_optional, cooldown,
       day_notes) ==
    [focus |-> focus, estimated_time_min |-> estimated_time_min, warmup |-> warmup,
     exercises |-> exercises, finisher_optional |-> finisher_optional,
     cooldown |-> cooldown, day_notes |-> day_notes]

\* A day with a label only, a day with some of the sections, a day with all
\* of them.
PdfDayShapes ==
    { PdfDay(FALSE, FALSE, 0, <<>>, 0, 0, 0),
      PdfDay(TRUE, FALSE, 1, <<PdfExercise(FALSE, FALSE, FALSE)>>, 0, 1, 0),
      PdfDay(TRUE, TRUE, 2,
             <<PdfExercise(TRUE, TRUE, TRUE), PdfExercise(FALSE, FALSE, TRUE)>>, 1, 1, 1) }

PdfPlans ==
    {[progression_notes |-> n, days |-> days] :
         n \in {0, 2},
         days \in UNION {[1..k -> PdfDayShapes] : k \in 0..MaxPdfDays}}

InitPdf ==
    /\ PlansIdle
    /\ AuthIdle
    /\ FavIdle
    /\ SupIdle
    /\ pdf \in {PdfStart(plan) : plan \in PdfPlans}
NextPdf == Line \/ ExtraGap \/ PdfSave
SpecPdf == InitPdf /\ [][NextPdf]_vars

\* ---- inputs of the account handlers ----
Names == {"ann", "bob"}
Passwords == {"pw1", "pw2"}
Emails == {NoEmail, <<"a", "@", "x", ".", "i", "o">>, <<"a", "x", ".", "i", "o">>}

InitAuth ==
    /\ PlansIdle
    /\ AppIdle
NextAuth ==
    \/ \E n \in Names, pw \in Passwords, e \in Emails : Signup(n, pw, e)
    \/ \E n \in Names, pw \in Passwords : Login(n, pw)
    \/ \E id \in 1..MaxUsers, a \in {"true", "false", "absent"} : ToggleUserStatus(id, a)
SpecAuth == InitAuth /\ [][NextAuth]_vars

\* ---- inputs of the password reset ----
ResetEmails == {<<"a", "@", "x", ".", "i", "o">>, <<"b", "@", "x", ".", "i", "o">>}
UnknownEmail == <<"c", "@", "x", ".", "i", "o">>

InitReset ==
    /\ PlansIdle
    /\ AppIdle
NextReset ==
    \/ \E n \in Names, e \in ResetEmails : Signup(n, "pw1", e)
    \/ \E e \in ResetEmails \cup {UnknownEmail} : RequestPasswordReset(e)
    \/ \E t \in 0..(MaxResetTokens + 1), pw \in Passwords : ResetPassword(t, pw)
    \/ Tick
SpecReset == InitReset /\ [][NextReset]_vars

\* ---- inputs of the favourite handlers ----
InitFav ==
    /\ PlansIdle
    /\ AppIdle
NextFav ==
    \/ \E u \in FavUsers, s \in FavSupplements : AddFav(u, s)
    \/ \E u \in FavUsers, s \in FavSupplements : RemoveFav(u, s)
    \/ \E u \in FavUsers, s \in FavSupplements : CheckFavorite(u, s)
SpecFav == InitFav /\ [][NextFav]_vars

\* ---- inputs of the supplement handlers ----
InitSupplements ==
    /\ PlansIdle
    /\ AppIdle
NextSupplements ==
    \/ \E image \in BOOLEAN : AddSupplement(image)
    \/ \E id \in 1..(MaxSupplements + 1) : DeleteSupplement(id)
SpecSupplements == InitSupplements /\ [][NextSupplements]_vars

(***************************************************************************)
(* Claims about the meal plan store                                        *)
(***************************************************************************)
ActiveRowsOf(u) == {r \in RowsOf(u) : r.is_active}
SavedRowsOf(u) == {r \in RowsOf(u) : ~r.plan_json.isNull}
SaveReturned == resp.op = "save" /\ resp.outcome = "ok"
SaveInFlight(u) == \E p \in Workers : req[p].pc = "insert" /\ req[p].user = u

\* C1: when calls run one after the other, right after a successful save the
\* user has exactly one active row, and it is the row that save inserted.
C1_OneActiveAfterSave ==
    SaveReturned =>
        /\ Cardinality(ActiveRowsOf(resp.user)) = 1
        /\ \A r \in ActiveRowsOf(resp.user) : r.id = resp.recId

\* A second save of the same user has returned; the first one's row is still stored.
C1_Witness ==
    /\ SaveReturned
    /\ \E r \in SavedRowsOf(resp.user) : r.id < resp.recId /\ ~r.is_active

SameButActive(r, r2) == r2 = [r EXCEPT !.is_active = r2.is_active]

C5_LatestIsNewestRow ==
    [][resp'.op = "latest" =>
          /\ (resp'.outcome = "none") <=> (RowsOf(resp'.user) = {})
          /\ resp'.outcome = "ok" =>
                \A r \in RowsOf(resp'.user) : r.id <= resp'.recId
          /\ (SaveReturned /\ resp.user = resp'.user) =>
                (resp'.outcome = "ok" /\ resp'.body = resp.body)]_vars

\* C5 as amended: get_latest returns nothing exactly when the user has no row
\* with a payload; else it returns the payload of such a row whose created_at
\* no other such row of the user exceeds, whatever its is_active; right after
\* a successful save whose row has a created_at later than every other one it
\* returns what that save returned.
C5_LatestIsNewestPayload ==
    [][resp'.op = "latest" =>
          /\ (resp'.outcome = "none") <=> (SavedRowsOf(resp'.user) = {})
          /\ resp'.outcome = "ok" =>
                \E r \in SavedRowsOf(resp'.user) :
                    /\ r.id = resp'.recId
                    /\ \A o \in SavedRowsOf(resp'.user) : o.created_at <= r.created_at
                    /\ JsonDumps(resp'.body, MealKeys) = r.plan_json.text
          /\ ( /\ SaveReturned /\ resp.user = resp'.user
               /\ \A r \in SavedRowsOf(resp.user), o \in SavedRowsOf(resp.user) :
                    (r.id = resp.recId /\ o.id # r.id) => o.created_at < r.created_at )
             => (resp'.outcome = "ok" /\ resp'.body = resp.body)]_vars

\* get_latest returned the payload of an inactive row although the user has a
\* row created after it.
C5_Witness ==
    /\ resp.op = "latest" /\ resp.outcome = "ok"
    /\ \E r \in RowsOf(resp.user) : r.id = resp.recId /\ ~r.is_active
    /\ \E o \in RowsOf(resp.user) : o.id > resp.recId

(***************************************************************************)
(* Claims about validation and the workout plan store                      *)
(***************************************************************************)
\* The dict a stored text holds.
StoredMeal(r) == JsonLoads(r.plan_json.text, MealKeys)
StoredWorkout(r) == JsonLoads(r.plan_json.text, WorkoutKeys)

\* The structure demanded of a meal plan: a meta record and a week of MealDays days.
MealStructureOk(d) ==
    d.meta.kind = "obj" /\ d.week.kind = "list" /\ d.week.n = MealDays

C6_MealRowsValidated ==
    \A r \in mealplans : ~r.plan_json.isNull => MealStructureOk(StoredMeal(r))

C6_WorkoutRowsValidated ==
    \A r \in workout_plans :
        schema_min_validate(Candidate("ok", "obj", StoredWorkout(r).meta,
                                      StoredWorkout(r).weeks)) = "OK"

HasDayList(c) ==
    /\ c.top = "obj"
    /\ c.data.weeks.kind = "list"
    /\ Len(c.data.weeks.items) >= 1
    /\ c.data.weeks.items[1].isObj
    /\ c.data.weeks.items[1].days.kind = "list"
CandidateDays(c) == IF HasDayList(c) THEN c.data.weeks.items[1].days.items ELSE <<>>

\* The requested days per week clamped to DaysLo..DaysHi, DefaultDays when
\* the request carries no number.
ExpectedDays(days) ==
    IF ~days.isInt THEN DefaultDays
    ELSE IF days.n < DaysLo THEN DaysLo
    ELSE IF days.n > DaysHi THEN DaysHi
    ELSE days.n

WrongDayCount(call) ==
    HasDayList(call.cand) /\ Len(CandidateDays(call.cand)) # ExpectedDays(call.days)

\* C7 as claimed: a candidate whose day count is not the expected one is
\* rejected with the day-count error.
C7_WrongCountGivesDayCountError ==
    WrongDayCount(wlast) => wlast.outcome = "E_DAY_COUNT"

\* C7 as amended: a candidate whose day count is not the expected one is
\* rejected and nothing is stored, with the day-count error when it passes
\* _schema_min_validate and with that check's error otherwise; every workout
\* plan that is stored has the expected number of days.
C7_DayCountGate ==
    [][wlast' # wlast =>
          /\ WrongDayCount(wlast') =>
                /\ wlast'.outcome # "ok"
                /\ workout_plans' = workout_plans
                /\ wlast'.outcome =
                       IF schema_min_validate(wlast'.cand) = "OK"
                       THEN "E_DAY_COUNT"
                       ELSE schema_min_validate(wlast'.cand)
          /\ \A r \in workout_plans' \ workout_plans :
                Len(StoredWorkout(r).weeks.items[1].days.items) = ExpectedDays(wlast'.days)]_vars

\* A well-formed candidate of 3 days was rejected for a request of 4.
C7_Witness ==
    /\ wlast.outcome = "E_DAY_COUNT"
    /\ Len(CandidateDays(wlast.cand)) = DefaultDays
    /\ ExpectedDays(wlast.days) = DefaultDays + 1
    /\ workout_plans # {}

\* The defects C8 lists.
ListedDefect(c) ==
    \/ c.top # "obj"
    \/ c.data.meta.kind = "absent"
    \/ c.data.weeks.kind = "absent"
    \/ \E i \in DOMAIN CandidateDays(c) :
          LET d == CandidateDays(c)[i]
          IN  /\ d.isObj
              /\ \/ d.exercises.kind # "list"
                 \/ Len(d.exercises.items) = 0
                 \/ \E j \in DOMAIN d.exercises.items :
                       LET ex == d.exercises.items[j]
                       IN  /\ ex.isObj
                           /\ \/ ex.substitutions.kind # "list"
                              \/ ex.substitutions.n < MinSubstitutions

\* The defects _schema_min_validate rejects besides.
UnlistedDefect(c) ==
    \/ c.data.weeks.kind # "list"
    \/ Len(c.data.weeks.items) # WeeksLen
    \/ ~c.data.weeks.items[1].isObj
    \/ c.data.weeks.items[1].week_number # WeekNumber
    \/ c.data.weeks.items[1].days.kind # "list"
    \/ Len(CandidateDays(c)) = 0
    \/ \E i \in DOMAIN CandidateDays(c) :
          LET d == CandidateDays(c)[i]
          IN  \/ ~d.isObj
              \/ /\ d.exercises.kind = "list"
                 /\ \E j \in DOMAIN d.exercises.items : ~d.exercises.items[j].isObj

\* C8 as claimed: _schema_min_validate rejects exactly the candidates with a
\* listed defect.
C8_RejectsExactlyListed ==
    vout # "none" => ((vout # "OK") <=> ListedDefect(vcand))

\* C8 as amended: _schema_min_validate rejects every candidate with a listed
\* defect, and also those whose weeks is no list of exactly one week, whose
\* week is no record or has a week_number other than 1, whose days is no
\* non-empty list, or that hold a day or an exercise that is no record; it
\* accepts every other candidate.
C8_RejectsListedAndShape ==
    vout # "none" =>
        ((vout # "OK") <=> (ListedDefect(vcand) \/ UnlistedDefect(vcand)))

\* An exercise after a good one came with a single substitution and was rejected.
C8_Witness ==
    /\ vout = "E_SUBSTITUTIONS"
    /\ \E i \in DOMAIN CandidateDays(vcand) :
          Len(CandidateDays(vcand)[i].exercises.items) > 1

\* C9 as claimed: the plan that is returned and stored is the candidate as the
\* generator gave it.
C9_ReturnsCandidateUnchanged ==
    wlast.outcome = "ok" =>
        /\ wlast.returned = wlast.cand.data
        /\ \A r \in workout_plans :
              r.id = wlast.recId => r.plan_json.text = JsonDumps(wlast.cand.data, WorkoutKeys)

\* C9 as amended: the plan that is returned keeps the candidate's weeks and
\* every meta field the candidate has; the meta fields the candidate lacks are
\* added with the service's defaults (all of them when meta is null or
\* empty); the stored payload is the returned plan.
C9_ReturnsCandidateWithMetaDefaults ==
    wlast.outcome = "ok" =>
        /\ wlast.returned.weeks = wlast.cand.data.weeks
        /\ wlast.returned.meta.kind = "obj"
        /\ DOMAIN wlast.returned.meta.f = Range(WorkoutMetaKeys)
        /\ \A k \in Range(WorkoutMetaKeys) :
              wlast.returned.meta.f[k] =
                  IF k \in DOMAIN wlast.cand.data.meta.f
                  THEN wlast.cand.data.meta.f[k]
                  ELSE ServerValue
        /\ \A r \in workout_plans : r.id = wlast.recId => StoredWorkout(r) = wlast.returned

\* A candidate with some meta fields and without others was stored.
C9_Witness ==
    /\ wlast.outcome = "ok" /\ wlast.recId # 0
    /\ \E k \in Range(WorkoutMetaKeys) : k \in DOMAIN wlast.cand.data.meta.f
    /\ \E k \in Range(WorkoutMetaKeys) : k \notin DOMAIN wlast.cand.data.meta.f

\* C10: no user ever has more than one row in workout_plans.
C10_OneWorkoutPlanPerUser ==
    \A u \in Users : Cardinality({r \in workout_plans : r.user_id = u}) <= 1

\* The workout call got through validation, the day check and the meta
\* defaults, so that all that is left is the write of lines 338-352.
WorkoutPlanComputed(call) ==
    /\ call.cand.json = "ok"
    /\ schema_min_validate(call.cand) = "OK"
    /\ ~WrongDayCount(call)
    /\ Truthy(call.cand.data.meta) => call.cand.data.meta.kind = "obj"

\* A workout plan that was computed is returned, whether or not its row was
\* written (the try / except of lines 338-352).
C11_WorkoutPlanReturned ==
    WorkoutPlanComputed(wlast) =>
        wlast.outcome = "ok" /\ wlast.returned.weeks = wlast.cand.data.weeks

\* No meal plan call ends with the exception of a failed write.
C11_MealPlanReturned == ~(resp.op = "save" /\ resp.outcome = "EXC_DB")

C11_WorkoutWitness == wlast.outcome = "ok" /\ wlast.recId = 0

(***************************************************************************)
(* Claims about the mock plan generator                                    *)
(***************************************************************************)
Abs(x) == IF x < 0 THEN 0 - x ELSE x
Macros == {"calories", "protein", "carbs", "fat"}
DayReturned == dcall.pc = "returned" /\ dcall.result.outcome = "ok"

\* C12: for a calorie target above 0 and at least one meal per day, the
\* calories of the meals of the returned day add up to the target give or take
\* the number of meal slots, read as the larger of mealsPerDay and the number
\* of meals in the day.
C12_CaloriesReconcile ==
    (dcall.pc = "returned" /\ dcall.prefs.mealsPerDay >= 1 /\ dcall.targets.calories > 0) =>
        /\ dcall.result.outcome = "ok"
        /\ Abs(SumMacro(dcall.result.plan.meals, "calories") - dcall.targets.calories)
               <= Max(dcall.prefs.mealsPerDay, Len(dcall.result.plan.meals))

\* C13: in a returned day each actual total is the sum over the meals and is
\* within 1 of its target.
C13_ActualsMatchTargets ==
    DayReturned =>
        \A m \in Macros :
            /\ dcall.result.plan.actual[m] = SumMacro(dcall.result.plan.meals, m)
            /\ Abs(dcall.result.plan.actual[m] - dcall.result.plan.target[m]) <= 1

\* C14: with a calorie target of 0 and at least one meal per day the call
\* returns, every meal has 0 calories and the normalization is skipped.
C14_ZeroCaloriesNoDivision ==
    (dcall.pc = "returned" /\ dcall.prefs.mealsPerDay >= 1 /\ dcall.targets.calories = 0) =>
        /\ dcall.result.outcome = "ok"
        /\ ~dcall.result.normalized
        /\ Len(dcall.result.plan.meals) = Len(MealTypes(dcall.prefs.mealsPerDay))
        /\ \A i \in DOMAIN dcall.result.plan.meals : dcall.result.plan.meals[i].calories = 0

\* A day of five meals came back for a calorie target of 0 and a protein
\* target above 0.
C14_Witness ==
    /\ DayReturned
    /\ dcall.targets.calories = 0 /\ dcall.targets.protein > 0
    /\ Len(dcall.result.plan.meals) = Len(MealTypeNames)
    /\ dcall.result.plan.actual.protein > 0

\* C15: with 0 meals per day the call returns a day, not normalized, and does
\* not raise a division by zero.
C15_ZeroSlotsNoDivision ==
    (dcall.pc = "returned" /\ dcall.prefs.mealsPerDay = 0) =>
        dcall.result.outcome = "ok" /\ ~dcall.result.normalized

\* Two characters that are the same letter in either case, or the same character.
SameIgnoringCase(x, y) ==
    \/ x = y
    \/ \E i \in DOMAIN UpperChars : {x, y} = {UpperChars[i], LowerChars[i]}

\* a and b are equal ignoring case.
EqualIgnoringCase(a, b) ==
    Len(a) = Len(b) /\ \A i \in DOMAIN a : SameIgnoringCase(a[i], b[i])

\* token occurs in name ignoring case.
ContainsIgnoringCase(name, token) ==
    \E k \in 0..(Len(name) - Len(token)) :
        \A i \in DOMAIN token : SameIgnoringCase(name[k + i], token[i])

\* C16: no returned ingredient has the name of a disliked food ignoring case,
\* and none has a name that contains an allergy token ignoring case.
C16_NoDislikedNoAllergen ==
    icall.pc = "returned" =>
        \A i \in DOMAIN icall.result :
            /\ \A d \in Range(icall.foodsDislike) :
                   ~EqualIgnoringCase(icall.result[i].name, d)
            /\ \A a \in Range(icall.allergies) :
                   ~ContainsIgnoringCase(icall.result[i].name, a)

\* From the Breakfast list one ingredient went for a dislike written in other
\* case, and the others stayed although a dislike is a part of a name.
C16_Witness ==
    /\ icall.pc = "returned"
    /\ icall.mealType = "Breakfast"
    /\ icall.allergies = <<>>
    /\ Len(icall.result) = Len(base_ingredients("Breakfast")) - 1
    /\ \E d \in Range(icall.foodsDislike) :
           d # lower(d) /\ \E i \in DOMAIN base_ingredients("Breakfast") :
                               EqualIgnoringCase(base_ingredients("Breakfast")[i].name, d)


\* C28: for every meals-per-day value of 1 or more, the number of meals that
\* generate_single_day puts in a day equals preferences.mealsPerDay, the
\* divisor of the even per-meal share of each macro.
C28_MealCountIsMealsPerDay ==
    (DayReturned /\ dcall.prefs.mealsPerDay >= 1) =>
        Len(dcall.result.plan.meals) = dcall.prefs.mealsPerDay

\* The catalog list the claim names for a meal type: the type's own bucket, or
\* the Lunch bucket for a type without one.
StatedBucket(mealType) ==
    IF \E i \in DOMAIN MealTypeNames : MealTypeNames[i] = mealType
    THEN base_ingredients(mealType)
    ELSE base_ingredients("Lunch")

\* The positions of the bucket whose item is neither disliked nor allergenic,
\* in ascending order.
Survivors(bucket, foodsDislike, allergies) ==
    SelectSeq([i \in DOMAIN bucket |-> i],
              LAMBDA i : /\ \A d \in Range(foodsDislike) :
                                ~EqualIgnoringCase(bucket[i].name, d)
                         /\ \A a \in Range(allergies) :
                                ~ContainsIgnoringCase(bucket[i].name, a))

\* C29: generate_ingredients returns the first at most 5 items, in catalog
\* order, of the catalog bucket of the meal type that pass the dislike and
\* allergy filters, and takes the Lunch bucket when the meal type has no
\* bucket; the order of the result is the catalog's.
C29_FirstFiveInCatalogOrder ==
    icall.pc = "returned" =>
        LET bucket == StatedBucket(icall.mealType)
            pass == Survivors(bucket, icall.foodsDislike, icall.allergies)
        IN  /\ Len(icall.result) = Min(5, Len(pass))
            /\ \A k \in DOMAIN icall.result : icall.result[k] = bucket[pass[k]]

\* C29 witness: a meal type without a bucket got the Lunch list with its
\* middle item filtered out and the two others in catalog order.
C29_Witness ==
    /\ icall.pc = "returned"
    /\ icall.mealType \notin Range(MealTypeNames)
    /\ icall.result = <<base_ingredients("Lunch")[1], base_ingredients("Lunch")[3]>>
    /\ icall.foodsDislike # <<>>

(***************************************************************************)
(* Claims about the shopping list                                          *)
(***************************************************************************)
ShoppingReturned == scall.pc = "returned"

\* The names that occur in any meal of any input day.
InputNames == Range(IngredientNames_Repeated(CollectedIngredients(scall.days)))

\* The places <<category index, item index>> of the returned list.
Places(list) == {<<c, i>> \in (DOMAIN list) \X (1..MaxIngredients * (MaxShopDays + 1)) :
                    i \in DOMAIN list[c].items}

\* C17: for every list of days, generate_shopping_list returns no two
\* categories with the same name, and every distinct ingredient name that
\* occurs in any meal of any input day is an item of exactly one returned
\* category, exactly once.
C17_EachNameOnceInOneCategory ==
    ShoppingReturned =>
        LET list == scall.result
        IN  /\ \A c1, c2 \in DOMAIN list :
                   list[c1].category = list[c2].category => c1 = c2
            /\ \A name \in InputNames :
                   Cardinality({pl \in Places(list) :
                                   list[pl[1]].items[pl[2]].name = name}) = 1

\* C17 witness: a returned list for days in which one name occurs in two
\* meals and a name that differs from it only in case occurs too.
C17_Witness ==
    /\ ShoppingReturned
    /\ Len(scall.days) = 2
    /\ \A d \in 1..2 : \E i \in DOMAIN scall.days[d].meals[1].ingredients :
           scall.days[d].meals[1].ingredients[i].name = <<"E", "g", "g", "s">>
    /\ <<"e", "g", "g", "s">> \in InputNames
    /\ Len(scall.result) >= 2

\* The amounts collected for a name across the input days.
AmountsSeen(name) ==
    Range(CollectedAmounts(CollectedIngredients(scall.days), name))

\* C18: for each ingredient of the shopping list, the returned amount is the
\* placeholder "1x" when more than one distinct amount was collected for the
\* ingredient across the days, and is the single collected amount otherwise.
C18_AmountPlaceholderOnlyWhenSeveral ==
    ShoppingReturned =>
        \A pl \in Places(scall.result) :
            LET item == scall.result[pl[1]].items[pl[2]]
            IN  IF Cardinality(AmountsSeen(item.name)) > 1
                THEN item.amount = "1x"
                ELSE item.amount \in AmountsSeen(item.name)

\* The order of the categories as the claim states it.
StatedOrder == <<"Protein", "Vegetables", "Carbs", "Dairy", "Pantry">>

\* Some keyword of the category is contained in the lower-cased name.
HasKeyword(category, name) ==
    LET lowered == lower(name)
    IN  \E k \in Range(Keywords(category)) : StrIn(k, lowered)

\* C19: generate_shopping_list places each ingredient in the first category,
\* in the order Protein, Vegetables, Carbs, Dairy, Pantry, that has a keyword
\* contained in the lower-cased ingredient name, and in Other when no keyword
\* matches; an ingredient that matches several categories goes only to the
\* earliest one.
C19_FirstMatchingCategory ==
    ShoppingReturned =>
        \A pl \in Places(scall.result) :
            LET category == scall.result[pl[1]].category
                name == scall.result[pl[1]].items[pl[2]].name
            IN  IF \E r \in DOMAIN StatedOrder : HasKeyword(StatedOrder[r], name)
                THEN \E r \in DOMAIN StatedOrder :
                         /\ category = StatedOrder[r]
                         /\ HasKeyword(category, name)
                         /\ \A q \in 1..(r - 1) : ~HasKeyword(StatedOrder[q], name)
                ELSE category = "Other"

\* C19 witness: a returned list in which a name with keywords of Vegetables
\* and of Pantry is under Vegetables, a name with keywords of Protein and of
\* Pantry is under Protein, and a name without any keyword is under Other.
C19_Witness ==
    /\ ShoppingReturned
    /\ \E pl \in Places(scall.result) :
           /\ scall.result[pl[1]].category = "Vegetables"
           /\ scall.result[pl[1]].items[pl[2]].name = <<"B", "e", "l", "l", " ", "p", "e", "p", "p", "e", "r">>
           /\ HasKeyword("Pantry", <<"B", "e", "l", "l", " ", "p", "e", "p", "p", "e", "r">>)
    /\ \E pl \in Places(scall.result) :
           /\ scall.result[pl[1]].category = "Protein"
           /\ scall.result[pl[1]].items[pl[2]].name = <<"F", "i", "s", "h", " ", "o", "i", "l">>
           /\ HasKeyword("Pantry", <<"F", "i", "s", "h", " ", "o", "i", "l">>)
    /\ \E pl \in Places(scall.result) :
           /\ scall.result[pl[1]].category = "Other"
           /\ \A r \in DOMAIN StatedOrder :
                  ~HasKeyword(StatedOrder[r], scall.result[pl[1]].items[pl[2]].name)


(***************************************************************************)
(* Claims about POST /meal-plan/generate                                   *)
(***************************************************************************)
PlanReturned == pcall.pc = "returned" /\ pcall.status = HTTP_200

\* C20: every meal plan returned by plan generation (generate_meal_plan, as
\* called by the /meal-plan/generate endpoint with the request's duration)
\* owns exactly 7 DayPlan entries whose day indices are 1, 2, ..., 7 in that
\* order.
C20_SevenDaysInOrder ==
    PlanReturned =>
        /\ Len(pcall.body.days) = 7
        /\ \A i \in 1..7 : pcall.body.days[i].day = i

C27_AtMostOneActiveRow ==
    \A u \in Users :
        (\A p \in Workers : req[p].pc = "idle")
            => Cardinality({r \in mealplans : r.user_id = u /\ r.is_active}) <= 1

(***************************************************************************)
(* Claims about the PDF of a workout plan                                  *)
(***************************************************************************)
\* The calls of line among the operations done so far.
LinesCalled ==
    Cardinality({i \in 1..(pdf.at - 1) : pdf.ops[i].op = "line"})

\* C21: in workout_plan_json_to_pdf_bytes, for every plan and every sequence
\* of emitted lines and extra vertical gaps, each line is drawn with the
\* cursor at or above the 2.0 cm bottom margin and at or below the top margin:
\* when the cursor is below the bottom margin as a line is about to be drawn, a
\* new page is started and the cursor is set to the top margin first, so no
\* line is dropped or drawn off the page.
C21_LinesDrawnInsideMargins ==
    /\ pdf.lines = LinesCalled
    /\ pdf.lines > 0 =>
           /\ pdf.last.y >= 200
           /\ pdf.last.y <= 2970 - 160
           /\ IF pdf.last.before < 200
              THEN pdf.last.page = pdf.last.pageBefore + 1 /\ pdf.last.y = 2970 - 160
              ELSE pdf.last.page = pdf.last.pageBefore /\ pdf.last.y = pdf.last.before

\* C21 witness: a line that came right after an extra gap found the cursor
\* below the bottom margin and opened the second page.
C21_Witness ==
    /\ pdf.lines > 0
    /\ pdf.last.before < 200
    /\ pdf.last.page = 2
    /\ pdf.last.pageBefore = 1
    /\ pdf.at > 2
    /\ pdf.ops[pdf.at - 1].op = "line"
    /\ pdf.ops[pdf.at - 2].op = "gap"

Named == {u \in users : u.first_name = aresp.name}
Verified == {u \in Named : u.password = <<"hash", aresp.password>>}

\* What C23 says of every login but of the deactivated user's.
LoginTokenOnlyWhenAllowed ==
    aresp.op = "login" =>
        /\ aresp.token # 0 <=> aresp.status = 200
        /\ aresp.status = 200 <=> \E u \in Verified : u.active
        /\ (Named = {} \/ Verified = {}) => aresp.status = 401

C24_FavouriteFollowsLastOp ==
    [][/\ \A pair \in FavPairs :
              /\ Cardinality(FavRowsOf(pair[1], pair[2])') <= 1
              /\ (FavRowsOf(pair[1], pair[2])' # {}) <=> (lastFav'[pair] = "add")
       /\ fresp'.op = "check" =>
              fresp'.is_favorite = (lastFav'[<<fresp'.user_id, fresp'.sup_id>>] = "add")
       /\ fresp'.op = "add" =>
              IF lastFav[<<fresp'.user_id, fresp'.sup_id>>] = "add"
              THEN fresp'.status = 400 /\ favorites' = favorites /\ lastFav' = lastFav
              ELSE fresp'.status = 200]_vars

\* C24 witness: a pair that was added, removed and added again is reported
\* as a favourite, while another pair was added and removed last.
C24_Witness ==
    /\ fresp.op = "check"
    /\ fresp.is_favorite
    /\ fresp.favorite_id >= 2
    /\ \E f \in favorites : f.id = 1 /\ <<f.user_id, f.supplement_id>> # <<fresp.user_id, fresp.sup_id>>
    /\ \E pair \in FavPairs : lastFav[pair] = "remove"

\* C25: deleting an existing supplement through DELETE /supplements/{id}
\* succeeds with status 200, removes the supplement from the supplement
\* list, and deletes its stored image file when it has one; deleting a
\* supplement that does not exist gives 404 and changes nothing.
C25_DeleteRemovesRowAndImage ==
    [][sresp'.op = "delete" =>
           IF \E sup \in supplements : sup.id = sresp'.sup_id
           THEN /\ sresp'.status = 200
                /\ \A sup \in supplements' : sup.id # sresp'.sup_id
                /\ Filename(sresp'.sup_id) \notin files'
           ELSE /\ sresp'.status = 404
                /\ supplements' = supplements
                /\ files' = files]_vars

====
